---- MODULE Spec2Model ----
(***************************************************************************)
(* Model of the mortality / cardiovascular risk engine of                  *)
(* life_risk_estimator (backend/models, backend/calculators, backend/api). *)
(*                                                                         *)
(* Real numbers are exact rationals <<n, d>> in lowest terms with d > 0,   *)
(* so that products and sums are the mathematical ones.  A Python call     *)
(* either returns a value or raises; a raised exception is the record      *)
(* [ok |-> FALSE, exc |-> <exception class>].                              *)
(***************************************************************************)
EXTENDS Integers, Sequences, FiniteSets, TLC

VARIABLES
    ssa_data,              \* MortalityModels.ssa_data: the life table
    cdc_data,              \* MortalityModels.cdc_data: the cause table, or NoTable
    rr_db_file,            \* relative_risks_database.json as read by RelativeRiskDatabase
    intervention_effects,  \* MortalityCalculator.intervention_effects
    coefficients,          \* RealPCECalculator.coefficients
    usage_log,             \* number of rows data_logger.log_usage has inserted
    rr_db_instances,       \* number of RelativeRiskDatabase objects constructed
    pc,                    \* "idle", or the name of the operation whose result is held
    call,                  \* arguments of the operation
    result                 \* what the operation returned or raised

refs == <<ssa_data, cdc_data, rr_db_file, intervention_effects, coefficients>>
vars == <<ssa_data, cdc_data, rr_db_file, intervention_effects, coefficients,
          usage_log, rr_db_instances, pc, call, result>>

----------------------------------------------------------------------------
(* Exact rational arithmetic.                                              *)

Abs(x) == IF x < 0 THEN -x ELSE x

RECURSIVE GCD(_, _)
GCD(a, b) == IF b = 0 THEN a ELSE GCD(b, a % b)

Rat(n, d) == LET g == GCD(Abs(n), d) IN <<n \div g, d \div g>>

R(n) == <<n, 1>>
One == <<1, 1>>
Zero == <<0, 1>>

RMul(a, b) ==
    LET g1 == GCD(Abs(a[1]), b[2])
        g2 == GCD(Abs(b[1]), a[2])
    IN  <<(a[1] \div g1) * (b[1] \div g2), (a[2] \div g2) * (b[2] \div g1)>>

RAdd(a, b) ==
    LET g == GCD(a[2], b[2])
    IN  Rat(a[1] * (b[2] \div g) + b[1] * (a[2] \div g), (a[2] \div g) * b[2])

RNeg(a) == <<-a[1], a[2]>>
RSub(a, b) == RAdd(a, RNeg(b))

\* a / b for b # 0
RDiv(a, b) ==
    IF b[1] > 0 THEN RMul(a, <<b[2], b[1]>>) ELSE RMul(a, <<-b[2], -b[1]>>)

RLt(a, b) == a[1] * b[2] < b[1] * a[2]
RLe(a, b) == a[1] * b[2] <= b[1] * a[2]
RMax(a, b) == IF RLt(a, b) THEN b ELSE a
RMin(a, b) == IF RLt(b, a) THEN b ELSE a
RAbs(a) == <<Abs(a[1]), a[2]>>
RIsInt(a) == a[2] = 1

\* largest k with k * k <= n (Newton's iteration from above)
RECURSIVE ISqrtFrom(_, _)
ISqrtFrom(n, x) ==
    LET y == (x + n \div x) \div 2 IN IF y >= x THEN x ELSE ISqrtFrom(n, y)
ISqrt(n) == IF n = 0 THEN 0 ELSE ISqrtFrom(n, n)

\* round(x, ndigits) for x >= 0, scale = 10 ** ndigits
RRound(x, scale) == Rat((2 * x[1] * scale + x[2]) \div (2 * x[2]), scale)

\* A float power x ** y is correct to the float's precision, not exactly: the
\* model keeps a power exactly when it has at most two decimals and rounds
\* it to the nearest multiple of 0.01 otherwise.
RoundPow(a) == IF 100 % a[2] = 0 THEN a ELSE RRound(a, 100)

\* a ** k for an integer k >= 0
RECURSIVE RPow(_, _)
RPow(a, k) == IF k = 0 THEN One ELSE RoundPow(RMul(a, RPow(a, k - 1)))

\* a ** 0.5 for a >= 0: exact for a ratio of squares, the nearest multiple of
\* 0.01 otherwise
RSqrt(a) ==
    LET sn == ISqrt(a[1])
        sd == ISqrt(a[2])
    IN  IF sn * sn = a[1] /\ sd * sd = a[2]
        THEN <<sn, sd>>
        ELSE Rat((ISqrt((a[1] * 40000) \div a[2]) + 1) \div 2, 100)

\* a ** e for a rational exponent e >= 0 that is an integer or an integer + 1/2
RPowR(a, e) ==
    IF e[2] = 1 THEN RPow(a, e[1])
    ELSE RoundPow(RMul(RPow(a, e[1] \div 2), RSqrt(a)))

----------------------------------------------------------------------------
(* Python values.                                                          *)

Raise(e) == [ok |-> FALSE, exc |-> e]
Return(v) == [ok |-> TRUE, val |-> v]

\* dict.get(key, default)
Get(d, key, default) == IF key \in DOMAIN d THEN d[key] ELSE default

----------------------------------------------------------------------------
(* Reference data.                                                         *)

\* The database init_database writes: category -> 'values' -> name -> value.
\* (bmi.optimal_range, a list that no lookup of the engine names, and the
\* source / confidence-interval metadata are left out.)
BuiltinDatabase ==
    [smoking |->
        [current_vs_never |-> <<23, 10>>,
         current_vs_never_global |-> <<5, 2>>,
         former_vs_never |-> <<6, 5>>,
         years_to_never_equivalent |-> <<15, 1>>],
     blood_pressure |->
        [per_20mmhg_sbp |-> <<9, 5>>,
         treatment_reduction |-> <<7, 10>>],
     bmi |->
        [per_5_units |-> <<23, 20>>],
     fitness |->
        [per_met |-> <<17, 20>>,
         sedentary_vs_active |-> <<7, 5>>],
     alcohol |->
        [moderate_vs_none |-> <<1, 1>>,
         heavy_vs_none |-> <<13, 10>>,
         binge_vs_none |-> <<6, 5>>],
     interventions |->
        [quit_smoking |-> <<4, 5>>,
         reduce_bp_10mmhg |-> <<17, 20>>,
         improve_fitness |-> <<9, 10>>,
         lose_weight_5bmi |-> <<9, 10>>]]

\* RelativeRiskDatabase.init_database: an existing file is kept as it is, a
\* missing one is written.  NoFile is the missing file.
NoFile == [missing |-> TRUE]
init_database(file) == IF file = NoFile THEN BuiltinDatabase ELSE file

\* RelativeRiskDatabase.get_relative_risk(category, risk_factor)['value']
get_relative_risk(db, category, risk_factor) ==
    IF category \notin DOMAIN db THEN Raise("ValueError")
    ELSE IF risk_factor \notin DOMAIN db[category] THEN Raise("ValueError")
    ELSE Return(db[category][risk_factor])

\* RelativeRiskDatabase.get_relative_risk_value with population = "us"
get_relative_risk_value(db, category, risk_factor) ==
    LET values == IF category \in DOMAIN db THEN db[category] ELSE <<>>
    IN  IF (risk_factor \o "_us") \in DOMAIN values
        THEN get_relative_risk(db, category, risk_factor \o "_us")
        ELSE IF (risk_factor \o "_global") \in DOMAIN values
        THEN get_relative_risk(db, category, risk_factor \o "_global")
        ELSE get_relative_risk(db, category, risk_factor)

\* Ages the operations are called with, and the ages the life table covers.
Ages == {-1, 17, 20, 29, 30, 39, 40, 50, 59, 60, 64, 65, 70, 79, 80, 85, 90, 121}
TableAges == {a \in Ages : 20 <= a /\ a <= 85}

\* death probabilities with small denominators, so that the exact arithmetic
\* stays inside TLC's integers
MaleQx(a) ==
    IF a < 30 THEN <<1, 25>> ELSE IF a < 60 THEN <<1, 20>>
    ELSE IF a < 80 THEN <<1, 10>> ELSE <<1, 4>>
FemaleQx(a) ==
    IF a < 30 THEN <<1, 50>> ELSE IF a < 60 THEN <<1, 25>>
    ELSE IF a < 80 THEN <<1, 20>> ELSE <<1, 5>>

\* ssa_life_tables_2021.csv: one row per age, columns male_qx and female_qx
FullLifeTable == [a \in TableAges |-> [male_qx |-> MaleQx(a), female_qx |-> FemaleQx(a)]]
\* the same table with the row of one age inside its range missing
HoledLifeTable == [a \in TableAges \ {50} |-> FullLifeTable[a]]
LifeTables == {FullLifeTable, HoledLifeTable}

\* cdc_cause_death_2022.csv: rows in file order.  An age_group label is
\* 'a-b' (dash, start, end as group.split('-') gives them) or '85+'.
Band(label, s, e, hd, ca, ac, st, di) ==
    [age_group |-> label, dash |-> TRUE, start |-> s, end |-> e,
     heart_disease_pct |-> hd, cancer_pct |-> ca, accidents_pct |-> ac,
     stroke_pct |-> st, diabetes_pct |-> di]
OpenBand(hd, ca, ac, st, di) ==
    [age_group |-> "85+", dash |-> FALSE, start |-> 85, end |-> 85,
     heart_disease_pct |-> hd, cancer_pct |-> ca, accidents_pct |-> ac,
     stroke_pct |-> st, diabetes_pct |-> di]

NoTable == [loaded |-> FALSE]
FullCauseTable ==
    [loaded |-> TRUE,
     rows |-> << Band("0-44", 0, 44, R(10), R(15), R(40), R(5), R(5)),
                 Band("45-64", 45, 64, R(25), R(30), R(10), R(5), R(5)),
                 Band("65-84", 65, 84, R(30), R(25), R(5), R(10), R(5)),
                 OpenBand(R(40), R(30), R(10), R(15), R(5)) >>]
\* a table whose bands leave ages uncovered, whose second band overlaps the
\* first and whose last band exceeds 100%
GappyCauseTable ==
    [loaded |-> TRUE,
     rows |-> << Band("25-64", 25, 64, R(25), R(30), R(10), R(5), R(5)),
                 Band("60-74", 60, 74, R(30), R(30), R(5), R(10), R(5)),
                 OpenBand(R(40), R(30), R(10), R(20), R(10)) >>]
CauseTables == {NoTable, FullCauseTable, GappyCauseTable}

Causes == {"heart_disease", "cancer", "accidents", "stroke", "diabetes", "other"}

----------------------------------------------------------------------------
(* models/mortality_models.py                                              *)

SetMin(S) == CHOOSE x \in S : \A y \in S : x <= y
SetMax(S) == CHOOSE x \in S : \A y \in S : y <= x

\* the six-month conversion with the exponent 2 in place of 0.5
horizon_probability_squared(qx_1yr, time_horizon) ==
    IF time_horizon = "6_month"
    THEN Return(RSub(One, RPow(RSub(One, qx_1yr), 2)))
    ELSE IF time_horizon = "1_year" THEN Return(qx_1yr)
    ELSE IF time_horizon = "5_year"
    THEN Return(RSub(One, RPow(RSub(One, qx_1yr), 5)))
    ELSE Raise("ValueError")

\* the conversion of the one-year probability to the time horizon
horizon_probability(qx_1yr, time_horizon) ==
    IF time_horizon = "6_month"
    THEN Return(RSub(One, RSqrt(RSub(One, qx_1yr))))
    ELSE IF time_horizon = "1_year" THEN Return(qx_1yr)
    ELSE IF time_horizon = "5_year"
    THEN Return(RSub(One, RPow(RSub(One, qx_1yr), 5)))
    ELSE Raise("ValueError")

\* MortalityModels.calculate_baseline_mortality
calculate_baseline_mortality(ssa, age, sex, time_horizon) ==
    IF age < SetMin(DOMAIN ssa) \/ age > SetMax(DOMAIN ssa) THEN Raise("ValueError")
    ELSE IF age \notin DOMAIN ssa THEN Raise("IndexError")   \* .iloc[0] of no row
    ELSE horizon_probability(IF sex = "male" THEN ssa[age].male_qx
                             ELSE ssa[age].female_qx, time_horizon)

\* the band test with the upper end of 'a-b' excluded
BandMatches_exclusive_end(row, age) ==
    IF row.dash THEN row.start <= age /\ age < row.end
    ELSE row.age_group = "85+" /\ age >= 85

\* the loop over age_groups: does this row's label match the age
BandMatches(row, age) ==
    IF row.dash THEN row.start <= age /\ age <= row.end
    ELSE row.age_group = "85+" /\ age >= 85

NamedCauses == <<"heart_disease", "cancer", "accidents", "stroke", "diabetes">>

Pct(row, cause) ==
    CASE cause = "heart_disease" -> row.heart_disease_pct
      [] cause = "cancer" -> row.cancer_pct
      [] cause = "accidents" -> row.accidents_pct
      [] cause = "stroke" -> row.stroke_pct
      [] cause = "diabetes" -> row.diabetes_pct

RECURSIVE RSumSeq(_)
RSumSeq(q) == IF q = <<>> THEN Zero ELSE RAdd(q[1], RSumSeq(Tail(q)))

\* the tiers without the one of the young
TierFractions_two_tiers(age) ==
    IF age < 65
    THEN [heart_disease |-> <<3, 10>>, cancer |-> <<1, 4>>, accidents |-> <<3, 20>>,
          stroke |-> <<1, 10>>, diabetes |-> <<1, 10>>, other |-> <<1, 10>>]
    ELSE [heart_disease |-> <<2, 5>>, cancer |-> <<1, 4>>, stroke |-> <<3, 20>>,
          diabetes |-> <<1, 10>>, accidents |-> <<1, 20>>, other |-> <<1, 20>>]

\* the three fixed tiers used when no cause table is loaded
TierFractions(age) ==
    IF age < 25
    THEN [accidents |-> <<2, 5>>, heart_disease |-> <<1, 10>>, cancer |-> <<1, 5>>,
          stroke |-> <<1, 20>>, diabetes |-> <<1, 20>>, other |-> <<1, 5>>]
    ELSE IF age < 65
    THEN [heart_disease |-> <<3, 10>>, cancer |-> <<1, 4>>, accidents |-> <<3, 20>>,
          stroke |-> <<1, 10>>, diabetes |-> <<1, 10>>, other |-> <<1, 10>>]
    ELSE [heart_disease |-> <<2, 5>>, cancer |-> <<1, 4>>, stroke |-> <<3, 20>>,
          diabetes |-> <<1, 10>>, accidents |-> <<1, 20>>, other |-> <<1, 20>>]

\* the remaining risk with negative values replaced by zero
other_bucket_clamped(baseline_risk, total_allocated) ==
    RMax(Zero, RSub(baseline_risk, total_allocated))

\* cause_risks['other'] = baseline_risk - total_allocated
other_bucket(baseline_risk, total_allocated) == RSub(baseline_risk, total_allocated)

\* MortalityModels.allocate_cause_risks
allocate_cause_risks(cdc, age, baseline_risk) ==
    IF cdc.loaded
    THEN LET hits == {i \in 1..Len(cdc.rows) : BandMatches(cdc.rows[i], age)}
         IN  IF hits = {} THEN Raise("ValueError")
             ELSE LET age_group == cdc.rows[SetMin(hits)].age_group
                      age_data == cdc.rows[SetMin({i \in 1..Len(cdc.rows) :
                                                   cdc.rows[i].age_group = age_group})]
                      named == [c \in {NamedCauses[i] : i \in 1..5} |->
                                   RMul(baseline_risk, RDiv(Pct(age_data, c), R(100)))]
                      total_allocated == RSumSeq([i \in 1..5 |-> named[NamedCauses[i]]])
                  IN  Return([c \in Causes |->
                                 IF c = "other" THEN other_bucket(baseline_risk, total_allocated)
                                 ELSE named[c]])
    ELSE Return([c \in Causes |-> RMul(baseline_risk, TierFractions(age)[c])])

\* r.val applied to F when r is a value, the exception r otherwise
Bind(r, F(_)) == IF r.ok THEN F(r.val) ELSE r

\* the smoking adjustment with the decay of a former smoker not capped at the
\* years to never-equivalence
SmokingAdjustment_uncapped(db, rf) ==
    IF "smoking_status" \notin DOMAIN rf THEN Return(<<>>)
    ELSE IF rf["smoking_status"] = "current"
    THEN Bind(get_relative_risk_value(db, "smoking", "current_vs_never"),
              LAMBDA v : Return("smoking_rr" :> v))
    ELSE IF rf["smoking_status"] = "former"
    THEN Bind(get_relative_risk_value(db, "smoking", "former_vs_never"),
           LAMBDA max_reduction :
         Bind(get_relative_risk_value(db, "smoking", "years_to_never_equivalent"),
           LAMBDA years_to_never :
             Return("smoking_rr" :>
                 RAdd(One, RMul(RSub(max_reduction, One),
                                RSub(One, RDiv(Get(rf, "years_since_quit", Zero),
                                               years_to_never)))))))
    ELSE Return("smoking_rr" :> One)

SmokingAdjustment(db, rf) ==
    IF "smoking_status" \notin DOMAIN rf THEN Return(<<>>)
    ELSE LET smoking == rf["smoking_status"]
             years_since_quit == Get(rf, "years_since_quit", Zero)
         IN  IF smoking = "current"
             THEN Bind(get_relative_risk_value(db, "smoking", "current_vs_never"),
                       LAMBDA v : Return("smoking_rr" :> v))
             ELSE IF smoking = "former"
             THEN Bind(get_relative_risk_value(db, "smoking", "former_vs_never"),
                    LAMBDA max_reduction :
                  Bind(get_relative_risk_value(db, "smoking", "years_to_never_equivalent"),
                    LAMBDA years_to_never :
                      IF years_to_never = Zero THEN Raise("ZeroDivisionError")
                      ELSE LET reduction_factor ==
                                   RMin(RDiv(years_since_quit, years_to_never), One)
                           IN  Return("smoking_rr" :>
                                   RAdd(One, RMul(RSub(max_reduction, One),
                                                  RSub(One, reduction_factor))))))
             ELSE Return("smoking_rr" :> One)

BloodPressureAdjustment(db, rf) ==
    IF "systolic_bp" \notin DOMAIN rf THEN Return(<<>>)
    ELSE LET sbp == rf["systolic_bp"]
             bp_treated == Get(rf, "bp_treated", FALSE)
             sbp_diff == RMax(Zero, RSub(sbp, R(120)))
         IN  Bind(get_relative_risk_value(db, "blood_pressure", "per_20mmhg_sbp"),
                LAMBDA per20 :
                  LET sbp_rr == RPowR(per20, RDiv(sbp_diff, R(20)))
                  IN  IF bp_treated
                      THEN Bind(get_relative_risk_value(db, "blood_pressure",
                                                        "treatment_reduction"),
                                LAMBDA t : Return("bp_rr" :> RMul(sbp_rr, t)))
                      ELSE Return("bp_rr" :> sbp_rr))

BmiAdjustment(db, rf) ==
    IF "bmi" \notin DOMAIN rf THEN Return(<<>>)
    ELSE LET bmi_diff == RAbs(RSub(rf["bmi"], R(22)))
         IN  Bind(get_relative_risk_value(db, "bmi", "per_5_units"),
                  LAMBDA per5 : Return("bmi_rr" :> RPowR(per5, RDiv(bmi_diff, R(5)))))

\* the fitness adjustment with 'moderate' given the multiplier of 'sedentary'
FitnessAdjustment_moderate_as_sedentary(db, rf) ==
    IF "fitness_level" \notin DOMAIN rf THEN Return(<<>>)
    ELSE IF rf["fitness_level"] \in {"sedentary", "moderate"}
    THEN Bind(get_relative_risk_value(db, "fitness", "sedentary_vs_active"),
              LAMBDA v : Return("fitness_rr" :> v))
    ELSE Return("fitness_rr" :> One)

FitnessAdjustment(db, rf) ==
    IF "fitness_level" \notin DOMAIN rf THEN Return(<<>>)
    ELSE LET fitness == rf["fitness_level"]
         IN  IF fitness = "sedentary"
             THEN Bind(get_relative_risk_value(db, "fitness", "sedentary_vs_active"),
                       LAMBDA v : Return("fitness_rr" :> v))
             ELSE IF fitness = "moderate" THEN Return("fitness_rr" :> One)
             ELSE IF fitness = "high"
             THEN Bind(get_relative_risk_value(db, "fitness", "sedentary_vs_active"),
                       LAMBDA v : Return("fitness_rr" :> RDiv(One, RSqrt(v))))
             ELSE Return("fitness_rr" :> One)

AlcoholAdjustment(db, rf) ==
    IF "alcohol_pattern" \notin DOMAIN rf THEN Return(<<>>)
    ELSE LET alcohol == rf["alcohol_pattern"]
             Look(name) == Bind(get_relative_risk_value(db, "alcohol", name),
                                LAMBDA v : Return("alcohol_rr" :> v))
         IN  IF alcohol = "none" THEN Return("alcohol_rr" :> One)
             ELSE IF alcohol = "moderate" THEN Look("moderate_vs_none")
             ELSE IF alcohol = "heavy" THEN Look("heavy_vs_none")
             ELSE IF alcohol = "binge" THEN Look("binge_vs_none")
             ELSE Return("alcohol_rr" :> One)

\* MortalityModels.calculate_risk_adjustments
calculate_risk_adjustments(db, rf) ==
    Bind(SmokingAdjustment(db, rf), LAMBDA s :
    Bind(BloodPressureAdjustment(db, rf), LAMBDA b :
    Bind(BmiAdjustment(db, rf), LAMBDA m :
    Bind(FitnessAdjustment(db, rf), LAMBDA f :
    Bind(AlcoholAdjustment(db, rf), LAMBDA a :
        Return(s @@ b @@ m @@ f @@ a))))))

\* cause_rr with the BMI multiplier applied to the cardiovascular causes only
cause_rr_bmi_cardio_only(cause, adj) ==
    LET r1 == IF "smoking_rr" \in DOMAIN adj THEN adj["smoking_rr"] ELSE One
        r2 == IF cause \in {"heart_disease", "stroke"} /\ "bp_rr" \in DOMAIN adj
              THEN RMul(r1, adj["bp_rr"]) ELSE r1
        r3 == IF cause \in {"heart_disease", "stroke"} /\ "bmi_rr" \in DOMAIN adj
              THEN RMul(r2, adj["bmi_rr"]) ELSE r2
        r4 == IF "fitness_rr" \in DOMAIN adj THEN RMul(r3, adj["fitness_rr"]) ELSE r3
        r5 == IF cause \in {"heart_disease", "stroke"} /\ "alcohol_rr" \in DOMAIN adj
              THEN RMul(r4, adj["alcohol_rr"]) ELSE r4
    IN  r5

\* the body of the loop over cause_risks: the multiplier of one cause
cause_rr(cause, adj) ==
    LET r1 == IF "smoking_rr" \in DOMAIN adj THEN adj["smoking_rr"] ELSE One
        r2 == IF cause \in {"heart_disease", "stroke"} /\ "bp_rr" \in DOMAIN adj
              THEN RMul(r1, adj["bp_rr"]) ELSE r1
        r3 == IF cause \in {"heart_disease", "stroke", "diabetes"} /\ "bmi_rr" \in DOMAIN adj
              THEN RMul(r2, adj["bmi_rr"]) ELSE r2
        r4 == IF "fitness_rr" \in DOMAIN adj THEN RMul(r3, adj["fitness_rr"]) ELSE r3
        r5 == IF cause \in {"heart_disease", "stroke"} /\ "alcohol_rr" \in DOMAIN adj
              THEN RMul(r4, adj["alcohol_rr"]) ELSE r4
    IN  r5

CauseOrder == <<"heart_disease", "cancer", "accidents", "stroke", "diabetes", "other">>

\* calculate_adjusted_risk comes to its call of calculate_risk_adjustments,
\* which constructs a RelativeRiskDatabase: the baseline lookup and the cause
\* allocation before it have not raised
reaches_risk_adjustments(ssa, cdc, age, sex, time_horizon) ==
    LET baseline == calculate_baseline_mortality(ssa, age, sex, time_horizon)
    IN  baseline.ok /\ allocate_cause_risks(cdc, age, baseline.val).ok

\* MortalityModels.calculate_adjusted_risk, up to the usage-log write
calculate_adjusted_risk(ssa, cdc, db, age, sex, rf, time_horizon) ==
    Bind(calculate_baseline_mortality(ssa, age, sex, time_horizon), LAMBDA baseline_risk :
    Bind(allocate_cause_risks(cdc, age, baseline_risk), LAMBDA cause_risks :
    Bind(calculate_risk_adjustments(db, rf), LAMBDA risk_adjustments :
        LET adjusted_cause_risks ==
                [c \in Causes |-> RMul(cause_risks[c], cause_rr(c, risk_adjustments))]
        IN  Return([baseline_risk |-> baseline_risk,
                    adjusted_total_risk |->
                        RSumSeq([i \in 1..6 |-> adjusted_cause_risks[CauseOrder[i]]]),
                    cause_risks |-> adjusted_cause_risks,
                    risk_adjustments |-> risk_adjustments,
                    time_horizon |-> time_horizon]))))

----------------------------------------------------------------------------
(* models/prevent_equations.py.  Every argument is a rational or None.  A  *)
(* risk output is None or the estimate of one equation; the estimate is    *)
(* kept as the equation evaluated and the terms it was evaluated on.        *)

None == <<>>

_mmol_conversion(cholesterol_mg_dl) ==
    IF cholesterol_mg_dl = None THEN Raise("TypeError")
    ELSE Return(RMul(Rat(1293, 50000), cholesterol_mg_dl))

\* a - b on values either of which may be None
Minus(a, b) == IF a = None \/ b = None THEN None ELSE RSub(a, b)

\* the age check of _validate_inputs with only its upper limit
age_invalid_upper_only(age) == age = None \/ RLt(R(79), age)

age_invalid(age) == age = None \/ RLt(age, R(30)) \/ RLt(R(79), age)

_validate_inputs(p) ==
    LET invalid(msg) == [is_valid |-> FALSE, errors |-> <<msg>>,
                         cvd_valid |-> FALSE, hf_valid |-> FALSE]
        flag(x) == x \in {R(0), R(1)}
        tc_bad == p.tc = None \/ RLt(p.tc, R(130)) \/ RLt(R(320), p.tc)
        hdl_bad == p.hdl = None \/ RLt(p.hdl, R(20)) \/ RLt(R(100), p.hdl)
        statin_bad == ~flag(p.statin)
        bmi_bad == p.bmi = None \/ RLt(p.bmi, Rat(37, 2)) \/ RLe(R(40), p.bmi)
    IN  IF ~flag(p.sex) THEN invalid("sex must be 0 (male) or 1 (female)")
        ELSE IF age_invalid(p.age)
             THEN invalid("age must be between 30-79 years")
        ELSE IF p.sbp = None \/ RLt(p.sbp, R(90)) \/ RLt(R(200), p.sbp)
             THEN invalid("sbp must be between 90-200 mmHg")
        ELSE IF ~flag(p.dm) THEN invalid("dm must be 0 or 1")
        ELSE IF ~flag(p.smoking) THEN invalid("smoking must be 0 or 1")
        ELSE IF p.egfr = None \/ RLe(p.egfr, Zero) THEN invalid("egfr must be > 0")
        ELSE IF ~flag(p.bptreat) THEN invalid("bptreat must be 0 or 1")
        ELSE [is_valid |-> TRUE,
              errors |->
                  (IF tc_bad
                   THEN <<"tc must be between 130-320 mg/dL (CVD/ASCVD unavailable)">>
                   ELSE <<>>) \o
                  (IF hdl_bad
                   THEN <<"hdl must be between 20-100 mg/dL (CVD/ASCVD unavailable)">>
                   ELSE <<>>) \o
                  (IF statin_bad
                   THEN <<"statin must be 0 or 1 (CVD/ASCVD unavailable)">>
                   ELSE <<>>) \o
                  (IF bmi_bad
                   THEN <<"bmi must be between 18.5-39.9 kg/m2 (HF unavailable)">>
                   ELSE <<>>),
              cvd_valid |-> ~(tc_bad \/ hdl_bad \/ statin_bad),
              hf_valid |-> ~bmi_bad]

\* round(_logistic(logor_...), 3) for one of the six equations
Estimate(equation, p, terms) ==
    [equation |-> equation, female |-> p.sex = R(1), terms |-> terms]

PREVENTResult(valid, errors) ==
    [risk_10yr_cvd |-> None, risk_10yr_ascvd |-> None, risk_10yr_hf |-> None,
     risk_30yr_cvd |-> None, risk_30yr_ascvd |-> None, risk_30yr_hf |-> None,
     model |-> "base", valid |-> valid, errors |-> errors]

prevent_base(p) ==
    LET v == _validate_inputs(p)
    IN  IF ~v.is_valid THEN Return(PREVENTResult(FALSE, v.errors))
        ELSE
        Bind(_mmol_conversion(Minus(p.tc, p.hdl)), LAMBDA non_hdl_mmol :
        Bind(_mmol_conversion(p.hdl), LAMBDA hdl_mmol :
            LET falsy == p.bmi = None \/ p.bmi = Zero
                bmi_low == IF falsy THEN Zero
                           ELSE RDiv(RSub(RMin(p.bmi, R(30)), R(25)), R(5))
                bmi_high == IF falsy THEN Zero
                            ELSE RDiv(RSub(RMax(p.bmi, R(30)), R(30)), R(5))
                cvd_terms == [non_hdl_mmol |-> non_hdl_mmol, hdl_mmol |-> hdl_mmol]
                hf_terms == [bmi_low |-> bmi_low, bmi_high |-> bmi_high]
                cvd(eq) == IF v.cvd_valid THEN Estimate(eq, p, cvd_terms) ELSE None
                hf(eq) == IF v.hf_valid THEN Estimate(eq, p, hf_terms) ELSE None
                late == RLt(R(59), p.age)
            IN  Return([risk_10yr_cvd |-> cvd("10yr_cvd"),
                        risk_10yr_ascvd |-> cvd("10yr_ascvd"),
                        risk_10yr_hf |-> hf("10yr_hf"),
                        risk_30yr_cvd |-> IF late THEN None ELSE cvd("30yr_cvd"),
                        risk_30yr_ascvd |-> IF late THEN None ELSE cvd("30yr_ascvd"),
                        risk_30yr_hf |-> IF late THEN None ELSE hf("30yr_hf"),
                        model |-> "base", valid |-> TRUE,
                        errors |-> IF late
                                   THEN Append(v.errors,
                                               "30-year risks unavailable for age > 59")
                                   ELSE v.errors])))

----------------------------------------------------------------------------
(* api/mortality_api.py: _calculate_life_expectancy.                       *)

\* the methods class MortalityModels defines
MortalityModelsMethods ==
    {"__init__", "_load_data", "calculate_baseline_mortality", "allocate_cause_risks",
     "calculate_risk_adjustments", "calculate_adjusted_risk"}

\* calculator.models.calculate_life_expectancy(age, sex): the attribute lookup
calculate_life_expectancy(ssa, age, sex) ==
    IF "calculate_life_expectancy" \in MortalityModelsMethods
    THEN Return(None)
    ELSE Raise("AttributeError")

\* the except branch without its floor
fallback_unfloored(age, sex) == IF sex = "male" THEN R(85 - age) ELSE R(88 - age)

\* the except branch: max(85 - age if sex == 'male' else 88 - age, 1.0)
fallback(age, sex) == RMax(IF sex = "male" THEN R(85 - age) ELSE R(88 - age), One)

\* The value returned, with the branch that produced it and the baseline
\* life expectancy the try branch obtained (None when it obtained none).
_calculate_life_expectancy(ssa, age, sex, adjusted_risk) ==
    LET attempt ==
            Bind(calculate_life_expectancy(ssa, age, sex), LAMBDA baseline_ex :
            Bind(calculate_baseline_mortality(ssa, age, sex, "1_year"),
                 LAMBDA baseline_risk :
                LET risk_multiplier == IF RLt(Zero, baseline_risk)
                                       THEN RDiv(adjusted_risk, baseline_risk) ELSE One
                IN  IF risk_multiplier = Zero THEN Raise("ZeroDivisionError")
                    ELSE Return([val |-> RMax(RDiv(baseline_ex, risk_multiplier), One),
                                 branch |-> "try", baseline_ex |-> baseline_ex])))
    IN  IF attempt.ok THEN attempt.val
        ELSE [val |-> fallback(age, sex), branch |-> "except", baseline_ex |-> None]

----------------------------------------------------------------------------
(* calculators/mortality_calculator.py: interventions.                     *)

\* MortalityCalculator._load_intervention_effects
_load_intervention_effects(db) ==
    Bind(get_relative_risk_value(db, "interventions", "quit_smoking"), LAMBDA quit :
    Bind(get_relative_risk_value(db, "smoking", "years_to_never_equivalent"), LAMBDA yrs :
    Bind(get_relative_risk_value(db, "interventions", "reduce_bp_10mmhg"), LAMBDA bp :
    Bind(get_relative_risk_value(db, "blood_pressure", "treatment_reduction"), LAMBDA trt :
    Bind(get_relative_risk_value(db, "interventions", "improve_fitness"), LAMBDA fit :
    Bind(get_relative_risk_value(db, "fitness", "sedentary_vs_active"), LAMBDA sed :
    Bind(get_relative_risk_value(db, "interventions", "lose_weight_5bmi"), LAMBDA wt :
    Bind(get_relative_risk_value(db, "alcohol", "moderate_vs_none"), LAMBDA alc :
        IF sed = Zero THEN Raise("ZeroDivisionError")
        ELSE Return(
            [quit_smoking |-> [immediate_reduction |-> quit,
                               years_to_never_equivalent |-> yrs],
             reduce_bp |-> [per_10mmhg_reduction |-> bp, treatment_effect |-> trt],
             improve_fitness |-> [per_met_improvement |-> fit,
                                  sedentary_to_moderate |-> RDiv(One, sed)],
             lose_weight |-> [per_5_bmi_units |-> wt, optimal_bmi |-> R(22)],
             reduce_alcohol |-> [heavy_to_moderate |-> alc,
                                 moderate_to_none |-> One]])))))))))

\* model_interventions: the entry of intervention_results for one item
InterventionResult(effects, current_risk, intervention, value) ==
    LET applies(reduction_factor, source) ==
            [applicable |-> TRUE,
             risk_reduction |-> RMul(current_risk, RSub(One, reduction_factor)),
             relative_effect |-> reduction_factor,
             source |-> source]
    IN  IF intervention = "quit_smoking" /\ value
        THEN applies(effects.quit_smoking.immediate_reduction, "Doll & Peto 2005 - BMJ")
        ELSE IF intervention = "reduce_bp" /\ RLt(Zero, value)
        THEN applies(RPowR(effects.reduce_bp.per_10mmhg_reduction, RDiv(value, R(10))),
                     "Blood Pressure Lowering Treatment Trialists' Collaboration 2016")
        ELSE IF intervention = "improve_fitness" /\ value \in {"moderate", "high"}
        THEN applies(IF value = "moderate"
                     THEN effects.improve_fitness.sedentary_to_moderate
                     ELSE effects.improve_fitness.per_met_improvement,
                     "Kodama et al. 2009 - JAMA")
        ELSE IF intervention = "lose_weight" /\ RLt(Zero, value)
        THEN applies(RPowR(effects.lose_weight.per_5_bmi_units, RDiv(value, R(5))),
                     "Global BMI Mortality Collaboration 2016 - Lancet")
        ELSE IF intervention = "reduce_alcohol" /\ value \in {"moderate", "none"}
        THEN applies(IF value = "moderate"
                     THEN effects.reduce_alcohol.heavy_to_moderate
                     ELSE effects.reduce_alcohol.moderate_to_none,
                     "Di Castelnuovo et al. 2006 - Arch Intern Med")
        ELSE [applicable |-> FALSE, risk_reduction |-> Zero, relative_effect |-> One,
              source |-> "Not applicable"]

\* a combination that keeps only the first applicable effect
CombineFirstOnly(results, acc) ==
    LET hit == {i \in DOMAIN results : results[i].applicable}
    IN  IF hit = {} THEN acc
        ELSE LET i == CHOOSE i \in hit : \A j \in hit : i <= j
             IN  [combined_reduction |-> RMul(acc.combined_reduction,
                                              results[i].relative_effect),
                  total_risk_reduction |-> RAdd(acc.total_risk_reduction,
                                                results[i].risk_reduction)]

\* model_interventions: the second loop, over intervention_results in order
RECURSIVE Combine(_, _)
Combine(results, acc) ==
    IF results = <<>> THEN acc
    ELSE Combine(Tail(results),
                 IF Head(results).applicable
                 THEN [combined_reduction |-> RMul(acc.combined_reduction,
                                                   Head(results).relative_effect),
                       total_risk_reduction |-> RAdd(acc.total_risk_reduction,
                                                     Head(results).risk_reduction)]
                 ELSE acc)

\* MortalityCalculator.model_interventions; items is interventions.items()
model_interventions(effects, current_risk, items) ==
    LET names == {items[i][1] : i \in DOMAIN items}
        item(n) == CHOOSE i \in DOMAIN items : items[i][1] = n
        intervention_results ==
            [n \in names |-> InterventionResult(effects, current_risk, n, items[item(n)][2])]
        c == Combine([i \in DOMAIN items |-> intervention_results[items[i][1]]],
                     [combined_reduction |-> One, total_risk_reduction |-> Zero])
        new_risk == RMul(current_risk, c.combined_reduction)
    IN  ("combined" :> [new_risk |-> new_risk,
                        absolute_reduction |-> RSub(current_risk, new_risk),
                        relative_reduction |-> c.combined_reduction,
                        total_risk_reduction |-> c.total_risk_reduction])
        @@ intervention_results

----------------------------------------------------------------------------
(* models/pce_real_coefficients.py.  A logarithm is kept as the number it  *)
(* is taken of, the linear predictor as the sequence of its terms in the   *)
(* order they are added, and a risk as the expression it is computed by.   *)

\* RealPCECalculator.coefficients (Goff et al. 2013, Table A)
PCECoefficients ==
    [white_male |->
        [ln_age |-> Rat(12344, 1000), ln_total_chol |-> Rat(11853, 1000),
         ln_age_x_ln_total_chol |-> Rat(-2664, 1000), ln_hdl |-> Rat(-7990, 1000),
         ln_age_x_ln_hdl |-> Rat(1769, 1000), ln_sbp_treated |-> Rat(1797, 1000),
         ln_sbp_untreated |-> Rat(1764, 1000), smoker |-> Rat(7837, 1000),
         ln_age_x_smoker |-> Rat(-1795, 1000), diabetes |-> Rat(658, 1000),
         mean_coefficient_sum |-> Rat(6118, 100), baseline_survival |-> Rat(9144, 10000)],
     white_female |->
        [ln_age |-> Rat(-29799, 1000), ln_age_squared |-> Rat(4884, 1000),
         ln_total_chol |-> Rat(13540, 1000), ln_age_x_ln_total_chol |-> Rat(-3114, 1000),
         ln_hdl |-> Rat(-13578, 1000), ln_age_x_ln_hdl |-> Rat(3149, 1000),
         ln_sbp_treated |-> Rat(2019, 1000), ln_sbp_untreated |-> Rat(1957, 1000),
         smoker |-> Rat(7574, 1000), ln_age_x_smoker |-> Rat(-1665, 1000),
         diabetes |-> Rat(661, 1000),
         mean_coefficient_sum |-> Rat(-2918, 100), baseline_survival |-> Rat(9665, 10000)],
     black_male |->
        [ln_age |-> Rat(2469, 1000), ln_total_chol |-> Rat(302, 1000),
         ln_hdl |-> Rat(-307, 1000), ln_sbp_treated |-> Rat(1916, 1000),
         ln_sbp_untreated |-> Rat(1809, 1000), smoker |-> Rat(549, 1000),
         diabetes |-> Rat(645, 1000),
         mean_coefficient_sum |-> Rat(1954, 100), baseline_survival |-> Rat(8954, 10000)],
     black_female |->
        [ln_age |-> Rat(17114, 1000), ln_total_chol |-> Rat(940, 1000),
         ln_hdl |-> Rat(-18920, 1000), ln_age_x_ln_hdl |-> Rat(4475, 1000),
         ln_sbp_treated |-> Rat(29291, 1000),
         ln_age_x_ln_sbp_treated |-> Rat(-6432, 1000),
         ln_sbp_untreated |-> Rat(27820, 1000),
         ln_age_x_ln_sbp_untreated |-> Rat(-6087, 1000),
         smoker |-> Rat(691, 1000), diabetes |-> Rat(874, 1000),
         mean_coefficient_sum |-> Rat(8661, 100), baseline_survival |-> Rat(9533, 10000)]]

\* str.lower() on the strings the calls are made with
Lower(s) ==
    CASE s = "White" -> "white"
      [] s = "Black" -> "black"
      [] s = "African_American" -> "african_american"
      [] s = "Male" -> "male"
      [] s = "FEMALE" -> "female"
      [] OTHER -> s

\* math.log(x)
math_log(x) ==
    IF x = None THEN Raise("TypeError")
    ELSE IF RLe(x, Zero) THEN Raise("ValueError")
    ELSE Return([ln |-> x])

\* coeff[name] * factor * ...: one addend of sum_of_products
Term(coeff, name, factors) ==
    [coefficient |-> name, value |-> coeff[name], factors |-> factors]

\* (1 if flag else 0)
Indicator(flag) == [indicator |-> IF flag THEN 1 ELSE 0]

\* blood pressure terms that ignore bp_treated
sbp_terms_untreated_only(coeff, bp_treated, ln_age, ln_sbp) ==
    <<Term(coeff, "ln_sbp_untreated", <<ln_sbp>>)>> \o
    (IF "ln_age_x_ln_sbp_untreated" \in DOMAIN coeff
     THEN <<Term(coeff, "ln_age_x_ln_sbp_untreated", <<ln_age, ln_sbp>>)>> ELSE <<>>)

\* calculate_10_year_risk: the blood pressure terms
sbp_terms(coeff, bp_treated, ln_age, ln_sbp) ==
    IF bp_treated /\ "ln_sbp_treated" \in DOMAIN coeff
    THEN <<Term(coeff, "ln_sbp_treated", <<ln_sbp>>)>> \o
         (IF "ln_age_x_ln_sbp_treated" \in DOMAIN coeff
          THEN <<Term(coeff, "ln_age_x_ln_sbp_treated", <<ln_age, ln_sbp>>)>> ELSE <<>>)
    ELSE <<Term(coeff, "ln_sbp_untreated", <<ln_sbp>>)>> \o
         (IF "ln_age_x_ln_sbp_untreated" \in DOMAIN coeff
          THEN <<Term(coeff, "ln_age_x_ln_sbp_untreated", <<ln_age, ln_sbp>>)>> ELSE <<>>)

\* calculate_10_year_risk: sum_of_products
sum_of_products(coeff, ln_age, ln_total_chol, ln_hdl, ln_sbp, bp_treated, smoker, diabetes) ==
    LET optional(name, factors) ==
            IF name \in DOMAIN coeff THEN <<Term(coeff, name, factors)>> ELSE <<>>
    IN  <<Term(coeff, "ln_age", <<ln_age>>)>> \o
        optional("ln_age_squared", <<ln_age, ln_age>>) \o
        <<Term(coeff, "ln_total_chol", <<ln_total_chol>>),
          Term(coeff, "ln_hdl", <<ln_hdl>>)>> \o
        optional("ln_age_x_ln_total_chol", <<ln_age, ln_total_chol>>) \o
        optional("ln_age_x_ln_hdl", <<ln_age, ln_hdl>>) \o
        sbp_terms(coeff, bp_treated, ln_age, ln_sbp) \o
        <<Term(coeff, "smoker", <<Indicator(smoker)>>)>> \o
        optional("ln_age_x_smoker", <<ln_age, Indicator(smoker)>>) \o
        <<Term(coeff, "diabetes", <<Indicator(diabetes)>>)>>

\* scale * (1 - baseline_survival ** exp(sum - mean_sum))
PCERisk(scale, coeff, sum) ==
    [scale |-> scale, baseline_survival |-> coeff.baseline_survival,
     sum_of_products |-> sum, mean_sum |-> coeff.mean_coefficient_sum]

\* an age check that has no upper end
age_outside_below_only(age) == age < 40

\* calculate_10_year_risk: the age check
age_outside(age) == age < 40 \/ age > 79

\* a race mapping without the default
race_key_no_default(race) ==
    IF Lower(race) = "african_american" THEN "black" ELSE Lower(race)

\* calculate_10_year_risk: the race of the coefficient group
race_key(race) ==
    LET race_lower == Lower(race)
    IN  IF race_lower \notin {"white", "black", "african_american"} THEN "white"
        ELSE IF race_lower = "african_american" THEN "black"
        ELSE race_lower

\* RealPCECalculator.calculate_10_year_risk.  Of the returned dict, risk_level
\* and source are not represented.
calculate_10_year_risk(coefs, age, sex, race, total_chol, hdl_chol, systolic_bp, bp_treated, smoker, diabetes) ==
    IF age_outside(age)
    THEN Return([error |-> "PCE is validated for ages 40-79. Cannot calculate for this age.",
                 risk_10_year |-> None, risk_5_year |-> None, risk_1_year |-> None,
                 population |-> race \o "_" \o sex, age_range_valid |-> FALSE])
    ELSE
    LET sex_key == Lower(sex)
        coeff_key == race_key(race) \o "_" \o sex_key
    IN  IF coeff_key \notin DOMAIN coefs
        THEN Return([error |-> "Unsupported combination: " \o race_key(race) \o " " \o sex_key,
                     risk_10_year |-> None, risk_5_year |-> None, risk_1_year |-> None,
                     population |-> coeff_key])
        ELSE
        LET coeff == coefs[coeff_key] IN
        Bind(math_log(R(age)), LAMBDA ln_age :
        Bind(math_log(total_chol), LAMBDA ln_total_chol :
        Bind(math_log(hdl_chol), LAMBDA ln_hdl :
        Bind(math_log(systolic_bp), LAMBDA ln_sbp :
            LET sum == sum_of_products(coeff, ln_age, ln_total_chol, ln_hdl, ln_sbp,
                                       bp_treated, smoker, diabetes)
            IN  Return([risk_10_year |-> PCERisk(One, coeff, sum),
                        risk_5_year |-> PCERisk(Rat(6, 10), coeff, sum),
                        risk_1_year |-> PCERisk(Rat(1, 10), coeff, sum),
                        population |-> coeff_key,
                        sum_of_products |-> sum,
                        mean_coefficient_sum |-> coeff.mean_coefficient_sum,
                        baseline_survival |-> coeff.baseline_survival,
                        coefficients_used |-> coeff_key,
                        age_range_valid |-> TRUE])))))

\* calculate_from_risk_factors: the smoker argument of the equation
pce_smoker(risk_factors) == Get(risk_factors, "smoking_status", "never") # "never"

\* RealPCECalculator.calculate_from_risk_factors
calculate_from_risk_factors(coefs, risk_factors, age, sex, race) ==
    calculate_10_year_risk(coefs, age, sex, race,
        Get(risk_factors, "total_cholesterol", R(200)),
        Get(risk_factors, "hdl_cholesterol", R(50)),
        Get(risk_factors, "systolic_bp", R(120)),
        Get(risk_factors, "bp_treated", FALSE),
        pce_smoker(risk_factors),
        Get(risk_factors, "diabetes", FALSE))

\* MortalityCalculator.calculate_pce_risk
calculate_pce_risk(coefs, age, sex, risk_factors, race) ==
    LET pce_result == calculate_from_risk_factors(coefs, risk_factors, age, sex, race)
    IN  IF pce_result.ok THEN pce_result.val
        ELSE [error |-> "PCE calculation failed: " \o pce_result.exc,
              risk_10_year |-> None, risk_5_year |-> None, risk_1_year |-> None]

----------------------------------------------------------------------------
(* calculators/mortality_calculator.py: calculate_risk and                 *)
(* calculate_comprehensive_risk.                                           *)

\* MortalityCalculator._validate_inputs (age is an int in every call made here)
MortalityCalculator_validate_inputs(age, sex, risk_factors, time_horizon) ==
    IF age < 0 \/ age > 120 THEN Raise("ValueError")
    ELSE IF sex \notin {"male", "female"} THEN Raise("ValueError")
    ELSE IF time_horizon \notin {"6_month", "1_year", "5_year"} THEN Raise("ValueError")
    ELSE IF /\ "smoking_status" \in DOMAIN risk_factors
            /\ risk_factors["smoking_status"] \notin {"never", "former", "current"}
         THEN Raise("ValueError")
    ELSE IF /\ "fitness_level" \in DOMAIN risk_factors
            /\ risk_factors["fitness_level"] \notin {"sedentary", "moderate", "high"}
         THEN Raise("ValueError")
    ELSE Return(None)

\* MortalityCalculator._get_top_causes with n = 3: a stable sort by risk,
\* largest first, cut to three entries
_get_top_causes(cause_risks) ==
    LET risk(i) == cause_risks[CauseOrder[i]]
        total == RSumSeq([i \in 1..6 |-> risk(i)])
        first(left) == CHOOSE i \in left : \A j \in left :
                           RLt(risk(j), risk(i)) \/ (risk(j) = risk(i) /\ i <= j)
        i1 == first(1..6)
        i2 == first((1..6) \ {i1})
        i3 == first((1..6) \ {i1, i2})
        entry(i) == [cause |-> CauseOrder[i], risk |-> risk(i),
                     percentage |-> RMul(RDiv(risk(i), total), R(100))]
    IN  IF total = Zero THEN Raise("ZeroDivisionError")
        ELSE Return(<<entry(i1), entry(i2), entry(i3)>>)

\* MortalityCalculator._classify_risk_level
_classify_risk_level(total_risk) ==
    IF RLt(total_risk, Rat(1, 100)) THEN "Low"
    ELSE IF RLt(total_risk, Rat(5, 100)) THEN "Moderate"
    ELSE IF RLt(total_risk, Rat(15, 100)) THEN "High"
    ELSE "Very High"

\* MortalityCalculator.calculate_risk
calculate_risk(ssa, cdc, db, age, sex, risk_factors, time_horizon) ==
    Bind(MortalityCalculator_validate_inputs(age, sex, risk_factors, time_horizon),
         LAMBDA validated :
    Bind(calculate_adjusted_risk(ssa, cdc, db, age, sex, risk_factors, time_horizon),
         LAMBDA risk_result :
    Bind(_get_top_causes(risk_result.cause_risks), LAMBDA top_causes :
        Return([top_causes |-> top_causes,
                risk_level |-> _classify_risk_level(risk_result.adjusted_total_risk),
                input_summary |-> [age |-> age, sex |-> sex,
                                   risk_factors |-> risk_factors]]
               @@ risk_result))))

\* MortalityCalculator.calculate_comprehensive_risk.  The two risk_level
\* entries of the summary are not represented.
calculate_comprehensive_risk(ssa, cdc, db, coefs, age, sex, risk_factors, time_horizon, race) ==
    Bind(calculate_risk(ssa, cdc, db, age, sex, risk_factors, time_horizon),
         LAMBDA mortality_result :
        LET pce_result == calculate_pce_risk(coefs, age, sex, risk_factors, race)
            or_zero(key) == Get(pce_result, key, Zero)
        IN  Return([mortality_risk |-> mortality_result,
                    cardiovascular_risk |-> pce_result,
                    pce_available |-> (Get(pce_result, "error", "") = ""),
                    summary |-> [all_cause_1_year |-> mortality_result.adjusted_total_risk,
                                 cardiovascular_10_year |-> or_zero("risk_10_year"),
                                 cardiovascular_5_year |-> or_zero("risk_5_year"),
                                 cardiovascular_1_year |-> or_zero("risk_1_year")]]))

----------------------------------------------------------------------------
(* api/mortality_api.py: the /api/calculate-risk request.                  *)

\* _calculate_prevent_risk: the smoking argument of prevent_base
prevent_smoking(risk_factors) ==
    IF Get(risk_factors, "smoking_status", "") = "current" THEN R(1) ELSE R(0)

\* _calculate_prevent_risk
_calculate_prevent_risk(age, sex, risk_factors) ==
    LET flag(b) == IF b THEN R(1) ELSE R(0)
        tc == Get(risk_factors, "total_cholesterol", None)
        hdl == Get(risk_factors, "hdl_cholesterol", None)
        sbp == Get(risk_factors, "systolic_bp", None)
        bmi == Get(risk_factors, "bmi", None)
        egfr == Get(risk_factors, "egfr", None)
        has_cvd_data == \A v \in {tc, hdl, sbp, egfr} : v # None
        has_hf_data == \A v \in {sbp, bmi, egfr} : v # None
        or(v, default) == IF v = None THEN default ELSE v
        given == [total_cholesterol |-> tc, hdl_cholesterol |-> hdl, systolic_bp |-> sbp,
                  egfr |-> egfr, bmi |-> bmi]
        r == prevent_base(
                 [sex |-> flag(Lower(sex) = "female"), age |-> R(age),
                  tc |-> or(tc, R(200)), hdl |-> or(hdl, R(50)), sbp |-> or(sbp, R(120)),
                  dm |-> flag(Get(risk_factors, "diabetes", FALSE)),
                  smoking |-> prevent_smoking(risk_factors),
                  bmi |-> or(bmi, R(25)), egfr |-> or(egfr, R(90)),
                  bptreat |-> flag(Get(risk_factors, "bp_treated", FALSE)),
                  statin |-> flag(Get(risk_factors, "statin", FALSE))])
    IN  IF ~has_cvd_data /\ ~has_hf_data
        THEN [available |-> FALSE,
              message |-> "Insufficient data for PREVENT calculation. Need: cholesterol, blood pressure, eGFR, and BMI.",
              missing_fields |->
                  SelectSeq(<<"total_cholesterol", "hdl_cholesterol", "systolic_bp",
                              "egfr", "bmi">>, LAMBDA f : given[f] = None)]
        ELSE IF ~r.ok
        THEN [available |-> FALSE, error |-> r.exc, message |-> "PREVENT calculation failed"]
        ELSE [available |-> TRUE,
              risk_10yr_cvd |-> r.val.risk_10yr_cvd,
              risk_10yr_ascvd |-> r.val.risk_10yr_ascvd,
              risk_10yr_hf |-> r.val.risk_10yr_hf,
              risk_30yr_cvd |-> r.val.risk_30yr_cvd,
              risk_30yr_ascvd |-> r.val.risk_30yr_ascvd,
              risk_30yr_hf |-> r.val.risk_30yr_hf,
              model |-> r.val.model,
              errors |-> r.val.errors]


\* _calculate_environmental_risk
_calculate_environmental_risk(risk_factors) ==
    LET transportation_mode == Get(risk_factors, "transportation_mode", "car")
        transportation_rr ==
            [car |-> One, motorcycle |-> R(29), bicycle |-> Rat(23, 10), walk |-> Rat(3, 2),
             public_transit |-> Rat(1, 10), work_from_home |-> Rat(1, 20)]
        transport_rr == Get(transportation_rr, transportation_mode, One)
        adjusted_transport_rr == RAdd(One, RMul(Rat(6, 100), RSub(transport_rr, One)))
        occupation_risk == Get(risk_factors, "occupation_risk", "low")
        occupation_rr == [low |-> Rat(1, 2), moderate |-> One, high |-> R(3),
                          very_high |-> R(8)]
        occ_rr == Get(occupation_rr, occupation_risk, One)
        adjusted_occ_rr == RAdd(One, RMul(Rat(3, 1000), RSub(occ_rr, One)))
        firearm_in_home == Get(risk_factors, "firearm_in_home", FALSE)
        adjusted_firearm_rr == IF firearm_in_home
                               THEN RAdd(One, RMul(Rat(3, 100), RSub(Rat(19, 10), One)))
                               ELSE One
    IN  [available |-> TRUE,
         factors |->
            [transportation |-> [mode |-> transportation_mode, raw_rr |-> transport_rr,
                                 adjusted_rr |-> RRound(adjusted_transport_rr, 1000)],
             occupation |-> [level |-> occupation_risk, raw_rr |-> occ_rr,
                             adjusted_rr |-> RRound(adjusted_occ_rr, 10000)],
             firearm |-> [present |-> firearm_in_home,
                          raw_rr |-> IF firearm_in_home THEN Rat(19, 10) ELSE One,
                          adjusted_rr |-> IF firearm_in_home
                                          THEN RRound(adjusted_firearm_rr, 1000) ELSE One]],
         combined_rr |->
            RRound(RMul(RMul(adjusted_transport_rr, adjusted_occ_rr), adjusted_firearm_rr),
                   10000)]

\* The route calculate_risk of /api/calculate-risk: the status and the body of
\* the response.  Of the body, the display names of the causes, the literature
\* sources and the static data_sources block are not represented; an absent
\* cardiovascularRisk.error (None) is written as the empty string.
route_calculate_risk(ssa, cdc, db, coefs, data) ==
    IF {"age", "sex", "risk_factors"} \ DOMAIN data # {}
    THEN [status |-> 400, error |-> "Missing required field"]
    ELSE
    LET age == data["age"]
        sex == data["sex"]
        risk_factors == data["risk_factors"]
        time_horizon == Get(data, "time_horizon", "1_year")
        race == Get(data, "race", "white")
        result_ == calculate_comprehensive_risk(ssa, cdc, db, coefs, age, sex, risk_factors,
                                                time_horizon, race)
    IN  IF ~result_.ok THEN [status |-> 500, error |-> result_.exc]
        ELSE
        LET mortality_result == result_.val.mortality_risk
            pce_result == result_.val.cardiovascular_risk
            prevent_result == _calculate_prevent_risk(age, sex, risk_factors)
            environmental_result == _calculate_environmental_risk(risk_factors)
            adjusted_mortality == RMul(mortality_result.adjusted_total_risk,
                                       environmental_result.combined_rr)
        IN  [status |-> 200,
             success |-> TRUE,
             lifeExpectancy |->
                 _calculate_life_expectancy(ssa, age, sex, adjusted_mortality).val,
             oneYearMortality |-> adjusted_mortality,
             riskFactors |-> mortality_result.risk_adjustments,
             causesOfDeath |-> mortality_result.top_causes,
             cardiovascularRisk |->
                 [risk_10_year |-> Get(pce_result, "risk_10_year", Zero),
                  risk_1_year |-> Get(pce_result, "risk_1_year", Zero),
                  population |-> Get(pce_result, "population", "Unknown"),
                  available |-> result_.val.pce_available,
                  error |-> Get(pce_result, "error", "")],
             preventRisk |-> prevent_result,
             environmentalRisk |-> environmental_result,
             metadata |-> [baseline_risk |-> mortality_result.baseline_risk,
                           risk_level |-> mortality_result.risk_level,
                           time_horizon |-> mortality_result.time_horizon,
                           input_summary |-> mortality_result.input_summary,
                           summary_comparison |-> result_.val.summary]]

----------------------------------------------------------------------------
(* Requests.                                                               *)

Sexes == {"male", "female"}
Horizons == {"6_month", "1_year", "5_year"}

\* every dict made of one choice per group of keys
Merge2(A, B) == {a @@ b : a \in A, b \in B}

SmokingInputs ==
    {<<>>, "smoking_status" :> "current",
     "smoking_status" :> "former"}
BpInputs ==
    {<<>>, "systolic_bp" :> R(140),
     ("systolic_bp" :> R(140)) @@ ("bp_treated" :> TRUE)}
BmiInputs == {<<>>, "bmi" :> R(27)}
FitnessInputs == {<<>>, "fitness_level" :> "sedentary", "fitness_level" :> "moderate"}
AlcoholInputs == {<<>>, "alcohol_pattern" :> "heavy"}

\* the individual every relative risk is relative to
ReferenceIndividual ==
    [smoking_status |-> "never", fitness_level |-> "moderate", alcohol_pattern |-> "none",
     systolic_bp |-> R(120), bp_treated |-> FALSE, bmi |-> R(22)]

YearsSinceQuit == {R(0), R(5), R(10), R(15), R(20)}

FormerSmokers ==
    {("smoking_status" :> "former") @@ ("years_since_quit" :> y) : y \in YearsSinceQuit}

RiskFactorSets ==
    Merge2(SmokingInputs, Merge2(BpInputs, Merge2(BmiInputs,
        Merge2(FitnessInputs, AlcoholInputs))))
    \cup {ReferenceIndividual} \cup FormerSmokers

MaxLog == 2

Init ==
    /\ ssa_data \in LifeTables
    /\ cdc_data \in CauseTables
    /\ rr_db_file = init_database(NoFile)
    /\ intervention_effects = _load_intervention_effects(init_database(NoFile)).val
    /\ coefficients = PCECoefficients
    /\ usage_log = 0
    /\ rr_db_instances = 1
    /\ pc = "idle"
    /\ call = <<>>
    /\ result = <<>>

\* models.calculate_adjusted_risk(age, sex, risk_factors, time_horizon)
CalculateAdjustedRisk ==
    /\ pc = "idle"
    /\ usage_log < MaxLog
    /\ rr_db_instances <= MaxLog
    /\ \E age \in {20, 50, 70, 90}, sex \in Sexes, rf \in RiskFactorSets,
          time_horizon \in Horizons \cup {"10_year"} :
          LET r == calculate_adjusted_risk(ssa_data, cdc_data, init_database(rr_db_file),
                                           age, sex, rf, time_horizon)
          IN  /\ call' = [age |-> age, sex |-> sex, risk_factors |-> rf,
                          time_horizon |-> time_horizon]
              /\ result' = r
              /\ usage_log' = IF r.ok THEN usage_log + 1 ELSE usage_log
              /\ rr_db_instances' =
                     IF reaches_risk_adjustments(ssa_data, cdc_data, age, sex, time_horizon)
                     THEN rr_db_instances + 1 ELSE rr_db_instances
    /\ rr_db_file' = init_database(rr_db_file)
    /\ pc' = "calculate_adjusted_risk"
    /\ UNCHANGED <<ssa_data, cdc_data, intervention_effects, coefficients>>

\* the caller takes the result; the request's data is gone
Respond ==
    /\ pc # "idle"
    /\ pc' = "idle"
    /\ call' = <<>>
    /\ result' = <<>>
    /\ UNCHANGED <<refs, usage_log, rr_db_instances>>

NextAdjusted == CalculateAdjustedRisk \/ Respond
SpecAdjusted == Init /\ [][NextAdjusted]_vars

----------------------------------------------------------------------------
(* Claims about calculate_adjusted_risk.                                   *)

AdjustedDone == pc = "calculate_adjusted_risk" /\ result.ok

\* the multiplier named in a risk_adjustments dict, 1 when it is not there
Multiplier(adj, name) == IF name \in DOMAIN adj THEN adj[name] ELSE One

\* C1: after calculate_adjusted_risk, each cause's adjusted risk is the raw
\* risk allocate_cause_risks gives it times smoking_rr and fitness_rr, times
\* bp_rr and alcohol_rr for heart_disease and stroke only, times bmi_rr for
\* heart_disease, stroke and diabetes only; and adjusted_total_risk is the sum
\* of the adjusted cause risks.
C1_AdjustedComposition ==
    AdjustedDone =>
        LET adj == result.val.risk_adjustments
            raw == allocate_cause_risks(cdc_data, call.age, result.val.baseline_risk).val
            everywhere == RMul(Multiplier(adj, "smoking_rr"), Multiplier(adj, "fitness_rr"))
            cardio == RMul(Multiplier(adj, "bp_rr"), Multiplier(adj, "alcohol_rr"))
            expected(c) ==
                RMul(raw[c],
                     RMul(everywhere,
                          IF c \in {"heart_disease", "stroke"}
                          THEN RMul(cardio, Multiplier(adj, "bmi_rr"))
                          ELSE IF c = "diabetes" THEN Multiplier(adj, "bmi_rr")
                          ELSE One))
        IN  /\ DOMAIN result.val.cause_risks = DOMAIN raw
            /\ \A c \in DOMAIN raw : result.val.cause_risks[c] = expected(c)
            /\ result.val.adjusted_total_risk =
                   RSumSeq([i \in 1..6 |-> expected(CauseOrder[7 - i])])

\* all five multipliers are present and none is 1, with a cause table loaded
C1_Witness ==
    /\ AdjustedDone
    /\ cdc_data.loaded
    /\ DOMAIN result.val.risk_adjustments =
           {"smoking_rr", "bp_rr", "bmi_rr", "fitness_rr", "alcohol_rr"}
    /\ \A k \in DOMAIN result.val.risk_adjustments : result.val.risk_adjustments[k] # One
    /\ result.val.cause_risks["cancer"] # Zero

FormerMultiplier(y) ==
    SmokingAdjustment(rr_db_file,
        ("smoking_status" :> "former") @@ ("years_since_quit" :> y)).val["smoking_rr"]

\* C20: for a former smoker the smoking multiplier is
\* 1 + (former_vs_never - 1) * (1 - min(years_since_quit / years_to_never, 1)):
\* former_vs_never at 0 years and when years_since_quit is absent,
\* non-increasing in years_since_quit, exactly 1 from years_to_never on, and
\* between 1 and former_vs_never for every years_since_quit >= 0.
C20_FormerSmokerDecay ==
    (AdjustedDone /\ Get(call.risk_factors, "smoking_status", "") = "former") =>
        LET y == Get(call.risk_factors, "years_since_quit", Zero)
            former == rr_db_file.smoking.former_vs_never
            years_to_never == rr_db_file.smoking.years_to_never_equivalent
            m == result.val.risk_adjustments["smoking_rr"]
        IN  /\ m = RAdd(One, RMul(RSub(former, One),
                                  RSub(One, RMin(RDiv(y, years_to_never), One))))
            /\ y = Zero => m = former
            /\ RLe(years_to_never, y) => m = One
            /\ RLe(One, m) /\ RLe(m, former)
            /\ \A y2 \in YearsSinceQuit : RLe(y, y2) => RLe(FormerMultiplier(y2), m)

\* a former smoker part of the way to never-equivalence
C20_Witness ==
    /\ AdjustedDone
    /\ Get(call.risk_factors, "smoking_status", "") = "former"
    /\ Get(call.risk_factors, "years_since_quit", Zero) = R(5)
    /\ result.val.risk_adjustments["smoking_rr"] = <<17, 15>>

----------------------------------------------------------------------------
(* prevent_base called directly.                                           *)

PreventArgs ==
    [sex : {R(0), R(1), R(2)},
     age : {None, R(29), R(45), R(59), R(60), R(65), R(80)},
     tc : {None, R(100), R(200)},
     hdl : {None, R(10), R(60)},
     sbp : {None, R(120)},
     dm : {R(0), R(2)},
     smoking : {R(0), R(1)},
     bmi : {None, R(18), R(25), R(40)},
     egfr : {Zero, R(95)},
     bptreat : {R(0), R(2)},
     statin : {None, R(0), R(1)}]

\* prevent_base(sex, age, tc, hdl, sbp, dm, smoking, bmi, egfr, bptreat, statin)
PreventBase ==
    /\ pc = "idle"
    /\ \E p \in PreventArgs :
          /\ call' = p
          /\ result' = prevent_base(p)
    /\ pc' = "prevent_base"
    /\ UNCHANGED <<refs, usage_log, rr_db_instances>>

NextPrevent == PreventBase \/ Respond
SpecPrevent == Init /\ [][NextPrevent]_vars

----------------------------------------------------------------------------
(* Claims about prevent_base.                                              *)

CvdPredictorsInRange(p) ==
    /\ p.tc # None /\ RLe(R(130), p.tc) /\ RLe(p.tc, R(320))
    /\ p.hdl # None /\ RLe(R(20), p.hdl) /\ RLe(p.hdl, R(100))
    /\ p.statin \in {R(0), R(1)}

HfPredictorsInRange(p) ==
    p.bmi # None /\ RLe(Rat(37, 2), p.bmi) /\ RLt(p.bmi, R(40))

Names(errors, group) ==
    \E i \in DOMAIN errors :
        errors[i] \in
            (IF group = "CVD"
             THEN {"tc must be between 130-320 mg/dL (CVD/ASCVD unavailable)",
                   "hdl must be between 20-100 mg/dL (CVD/ASCVD unavailable)",
                   "statin must be 0 or 1 (CVD/ASCVD unavailable)"}
             ELSE {"bmi must be between 18.5-39.9 kg/m2 (HF unavailable)"})

\* C3: every prevent_base call that passes the whole-call checks returns a
\* result (it does not raise) in which the CVD and ASCVD outputs are populated
\* exactly when total cholesterol, HDL and statin are present and in range,
\* the HF output is populated exactly when BMI is present and in [18.5, 40),
\* and an unavailable group is named in the error list.
C3_IndependentGating ==
    (pc = "prevent_base" /\ _validate_inputs(call).is_valid) =>
        /\ result.ok
        /\ (result.val.risk_10yr_cvd # None) <=> CvdPredictorsInRange(call)
        /\ (result.val.risk_10yr_ascvd # None) <=> CvdPredictorsInRange(call)
        /\ (result.val.risk_10yr_hf # None) <=> HfPredictorsInRange(call)
        /\ ~CvdPredictorsInRange(call) => Names(result.val.errors, "CVD")
        /\ ~HfPredictorsInRange(call) => Names(result.val.errors, "HF")

AgeNote == "30-year risks unavailable for age > 59"

InErrors(errors, msg) == \E i \in DOMAIN errors : errors[i] = msg

\* C11: every prevent_base call that passes the whole-call checks returns a
\* result; with age above 59 its three 30-year outputs are absent, the note
\* '30-year risks unavailable for age > 59' is in the error list and the
\* 10-year outputs are populated as their predictor groups allow; with age up
\* to 59 each 30-year output is present exactly when the 10-year output of the
\* same group is, so a fully valid input populates all six outputs.
C11_ThirtyYearSuppression ==
    (pc = "prevent_base" /\ _validate_inputs(call).is_valid) =>
        /\ result.ok
        /\ (result.val.risk_10yr_cvd # None) <=> CvdPredictorsInRange(call)
        /\ (result.val.risk_10yr_ascvd # None) <=> CvdPredictorsInRange(call)
        /\ (result.val.risk_10yr_hf # None) <=> HfPredictorsInRange(call)
        /\ IF RLt(R(59), call.age)
           THEN /\ result.val.risk_30yr_cvd = None
                /\ result.val.risk_30yr_ascvd = None
                /\ result.val.risk_30yr_hf = None
                /\ InErrors(result.val.errors, AgeNote)
           ELSE /\ (result.val.risk_30yr_cvd # None) <=> (result.val.risk_10yr_cvd # None)
                /\ (result.val.risk_30yr_ascvd # None) <=> (result.val.risk_10yr_ascvd # None)
                /\ (result.val.risk_30yr_hf # None) <=> (result.val.risk_10yr_hf # None)
                /\ ~InErrors(result.val.errors, AgeNote)

SixOutputs ==
    {"risk_10yr_cvd", "risk_10yr_ascvd", "risk_10yr_hf", "risk_30yr_cvd", "risk_30yr_ascvd", "risk_30yr_hf"}

\* C12: prevent_base called with a valid sex and an age that is missing,
\* below 30 or above 79 returns a result with valid false, all six risk
\* outputs absent and the age range named in the error list, whatever the
\* other arguments are.
C12_AgeOutOfRange ==
    (/\ pc = "prevent_base"
     /\ call.sex \in {R(0), R(1)}
     /\ (call.age = None \/ RLt(call.age, R(30)) \/ RLt(R(79), call.age))) =>
        /\ result.ok
        /\ result.val.valid = FALSE
        /\ \A f \in SixOutputs : result.val[f] = None
        /\ result.val.errors = <<"age must be between 30-79 years">>

C12_Witness ==
    /\ pc = "prevent_base"
    /\ call.sex = R(1)
    /\ call.age = R(29)
    /\ CvdPredictorsInRange(call) /\ HfPredictorsInRange(call)
    /\ result.ok /\ ~result.val.valid
    /\ \A f \in SixOutputs : result.val[f] = None

----------------------------------------------------------------------------
(* _calculate_life_expectancy called with the request's age and sex and an *)
(* adjusted one-year mortality.                                            *)

AdjustedRisks == {Zero, Rat(1, 100), Rat(1, 25), Rat(1, 20), Rat(1, 10), Rat(1, 2)}

\* _calculate_life_expectancy(age, sex, adjusted_risk)
CalculateLifeExpectancy ==
    /\ pc = "idle"
    /\ \E age \in Ages, sex \in Sexes \cup {"other"}, adjusted_risk \in AdjustedRisks :
          /\ call' = [age |-> age, sex |-> sex, adjusted_risk |-> adjusted_risk]
          /\ result' = Return(_calculate_life_expectancy(ssa_data, age, sex, adjusted_risk))
    /\ pc' = "_calculate_life_expectancy"
    /\ UNCHANGED <<refs, usage_log, rr_db_instances>>

NextLife == CalculateLifeExpectancy \/ Respond
SpecLife == Init /\ [][NextLife]_vars

----------------------------------------------------------------------------
(* Claims about _calculate_life_expectancy.                                *)

LifeDone == pc = "_calculate_life_expectancy"

\* the life table has an entry for the call's age and sex
HasEntry == call.age \in DOMAIN ssa_data /\ call.sex \in Sexes

\* C4: when the life table has an entry for (age, sex), the value returned is
\* max(baseline_expectancy / multiplier, 1), with multiplier the adjusted risk
\* over the table's one-year risk (1 when that is zero) and baseline_expectancy
\* the baseline life expectancy obtained from the models; the linear fallback
\* is not used.
C4_TableExpectancy ==
    (LifeDone /\ HasEntry /\ call.adjusted_risk # Zero) =>
        LET qx == calculate_baseline_mortality(ssa_data, call.age, call.sex, "1_year").val
            multiplier == IF RLt(Zero, qx) THEN RDiv(call.adjusted_risk, qx) ELSE One
        IN  /\ result.ok
            /\ result.val.branch = "try"
            /\ result.val.baseline_ex # None
            /\ result.val.val = RMax(RDiv(result.val.baseline_ex, multiplier), One)

\* C5: for fixed age and sex, a larger adjusted risk gives a strictly smaller
\* life expectancy, unless the value for the larger risk is the 1-year floor.
C5_Monotone ==
    LifeDone =>
        \A r2 \in AdjustedRisks :
            RLt(call.adjusted_risk, r2) =>
                LET e2 == _calculate_life_expectancy(ssa_data, call.age, call.sex, r2).val
                IN  RLt(e2, result.val.val) \/ e2 = One

\* C6: whenever the table-based computation fails (age outside the table, a
\* missing row, an adjusted risk of zero, any exception), the call does not
\* raise and returns exactly max(85 - age, 1) for sex 'male' and
\* max(88 - age, 1) otherwise; every value returned is at least 1.
C6_Fallback ==
    LifeDone =>
        /\ result.ok
        /\ RLe(One, result.val.val)
        /\ result.val.branch # "try" =>
              LET linear == IF call.sex = "male" THEN 85 - call.age ELSE 88 - call.age
              IN  result.val.val = R(IF linear > 1 THEN linear ELSE 1)

C6_Witness ==
    /\ LifeDone
    /\ result.ok
    /\ call.age \notin DOMAIN ssa_data
    /\ call.age > 88
    /\ call.sex = "female"
    /\ result.val.branch = "except"
    /\ result.val.val = One

----------------------------------------------------------------------------
(* model_interventions called with a current risk and a dict of proposed   *)
(* changes.                                                                *)

InterventionNames ==
    <<"quit_smoking", "reduce_bp", "improve_fitness", "lose_weight", "reduce_alcohol",
      "meditate", "combined">>

InterventionDicts ==
    Merge2({<<>>, "quit_smoking" :> TRUE, "quit_smoking" :> FALSE},
    Merge2({<<>>, "reduce_bp" :> R(10), "reduce_bp" :> R(20), "reduce_bp" :> Zero},
    Merge2({<<>>, "improve_fitness" :> "moderate", "improve_fitness" :> "high",
            "improve_fitness" :> "elite"},
    Merge2({<<>>, "lose_weight" :> R(5), "lose_weight" :> R(-5)},
    Merge2({<<>>, "reduce_alcohol" :> "none", "reduce_alcohol" :> "heavy"},
    Merge2({<<>>, "meditate" :> TRUE}, {<<>>, "combined" :> TRUE}))))))

Reverse(q) == [i \in 1..Len(q) |-> q[Len(q) + 1 - i]]

\* interventions.items() of a dict built in the order of InterventionNames
Items(interventions) ==
    LET present == SelectSeq(InterventionNames, LAMBDA n : n \in DOMAIN interventions)
    IN  [i \in 1..Len(present) |-> <<present[i], interventions[present[i]]>>]

\* calculator.model_interventions(current_risk, interventions)
ModelInterventions ==
    /\ pc = "idle"
    /\ \E current_risk \in {Rat(1, 100), Rat(1, 10)}, interventions \in InterventionDicts,
          reversed \in BOOLEAN :
          LET items == IF reversed THEN Reverse(Items(interventions))
                       ELSE Items(interventions)
          IN  /\ call' = [current_risk |-> current_risk, interventions |-> interventions,
                          items |-> items]
              /\ result' = Return(model_interventions(intervention_effects,
                                                      current_risk, items))
    /\ pc' = "model_interventions"
    /\ UNCHANGED <<refs, usage_log, rr_db_instances>>

NextInterventions == ModelInterventions \/ Respond
SpecInterventions == Init /\ [][NextInterventions]_vars

----------------------------------------------------------------------------
(* Claims about model_interventions.                                       *)

InterventionsDone == pc = "model_interventions"

\* the interventions of the call that the claim lists as not applicable
NotApplicable(n, value) ==
    \/ n = "quit_smoking" /\ value = FALSE
    \/ n \in {"reduce_bp", "lose_weight"} /\ ~RLt(Zero, value)
    \/ n = "improve_fitness" /\ value \notin {"moderate", "high"}
    \/ n = "reduce_alcohol" /\ value \notin {"moderate", "none"}
    \/ n \notin {"quit_smoking", "reduce_bp", "improve_fitness", "lose_weight",
                 "reduce_alcohol"}

\* the entry reported for n says: not applicable, effect 1.0, reduction 0
ReportedNotApplicable(entry) ==
    /\ {"applicable", "relative_effect", "risk_reduction"} \subseteq DOMAIN entry
    /\ entry.applicable = FALSE
    /\ entry.relative_effect = One
    /\ entry.risk_reduction = Zero

\* product of the relative effects reported for the names of `among`, taken
\* in the order of InterventionNames whatever the order of the call
RECURSIVE ProductOfEffects(_, _, _)
ProductOfEffects(res, among, i) ==
    IF i > Len(InterventionNames) THEN One
    ELSE LET n == InterventionNames[i]
             rest == ProductOfEffects(res, among, i + 1)
         IN  IF n \in among /\ res[n].applicable THEN RMul(rest, res[n].relative_effect)
             ELSE rest

CombinedIsProduct(among) ==
    LET res == result.val
        combined == res["combined"]
    IN  /\ combined.relative_reduction = ProductOfEffects(res, among, 1)
        /\ combined.new_risk = RMul(call.current_risk, combined.relative_reduction)
        /\ combined.absolute_reduction = RSub(call.current_risk, combined.new_risk)

\* C7 as stated: every supplied intervention that is not applicable, an
\* unknown name included, is reported with applicable = false, effect 1.0 and
\* reduction 0; the combined effect is the product of the applicable effects.
C7_AsStated ==
    InterventionsDone =>
        /\ \A n \in DOMAIN call.interventions :
              NotApplicable(n, call.interventions[n]) =>
                  ReportedNotApplicable(result.val[n])
        /\ CombinedIsProduct({n \in DOMAIN call.interventions :
                                 ~NotApplicable(n, call.interventions[n])})

\* C7: the combined relative effect is the product of the relative effects of
\* the applicable interventions, in whatever order they are supplied; every
\* supplied intervention that is not applicable and is not named 'combined'
\* is reported with applicable = false, relative effect 1.0 and risk
\* reduction 0; new_risk = current_risk * combined effect and
\* absolute_reduction = current_risk - new_risk.  (An intervention named
\* 'combined' has its entry replaced by the summary.)
C7_ProductOfApplicable ==
    InterventionsDone =>
        LET supplied == DOMAIN call.interventions \ {"combined"}
        IN  /\ \A n \in supplied :
                  IF NotApplicable(n, call.interventions[n])
                  THEN ReportedNotApplicable(result.val[n])
                  ELSE result.val[n].applicable
            /\ CombinedIsProduct({n \in supplied :
                                     ~NotApplicable(n, call.interventions[n])})
            /\ DOMAIN result.val = DOMAIN call.interventions \cup {"combined"}

C7_Witness ==
    /\ InterventionsDone
    /\ {"quit_smoking", "reduce_bp", "lose_weight", "meditate"}
           \subseteq DOMAIN call.interventions
    /\ call.items[1][1] # "quit_smoking"
    /\ result.val["quit_smoking"].applicable
    /\ result.val["reduce_bp"].applicable
    /\ ~result.val["lose_weight"].applicable
    /\ RLt(result.val["combined"].relative_reduction,
           result.val["quit_smoking"].relative_effect)

----------------------------------------------------------------------------
(* The Pooled Cohort Equations, called directly and through the calculator. *)

PceAges == {39, 40, 55, 79, 80}
PceSexes == {"male", "female", "Male", "FEMALE", "other"}
PceRaces == {"white", "Black", "african_american", "hispanic", "asian"}

\* pce_calculator.calculate_10_year_risk(age, sex, race, total_chol, hdl_chol,
\*                                        systolic_bp, bp_treated, smoker, diabetes)
Calculate10YearRisk ==
    /\ pc = "idle"
    /\ \E age \in PceAges, sex \in PceSexes, race \in PceRaces,
          total_chol \in {R(213), Zero}, hdl_chol \in {R(50), R(-5)},
          bp_treated \in BOOLEAN, smoker \in BOOLEAN, diabetes \in BOOLEAN :
          /\ call' = [age |-> age, sex |-> sex, race |-> race, total_chol |-> total_chol,
                      hdl_chol |-> hdl_chol, systolic_bp |-> R(120),
                      bp_treated |-> bp_treated, smoker |-> smoker, diabetes |-> diabetes]
          /\ result' = calculate_10_year_risk(coefficients, age, sex, race, total_chol,
                                              hdl_chol, R(120), bp_treated, smoker, diabetes)
    /\ pc' = "calculate_10_year_risk"
    /\ UNCHANGED <<refs, usage_log, rr_db_instances>>

PceRiskFactorSets ==
    Merge2({<<>>, "total_cholesterol" :> R(213), "total_cholesterol" :> Zero},
    Merge2({<<>>, "hdl_cholesterol" :> R(35)},
    Merge2({<<>>, "systolic_bp" :> R(140)},
    Merge2({<<>>, "bp_treated" :> TRUE},
    Merge2({<<>>, "smoking_status" :> "never", "smoking_status" :> "former",
            "smoking_status" :> "current"},
           {<<>>, "diabetes" :> TRUE})))))

\* calculator.calculate_pce_risk(age, sex, risk_factors, race)
CalculatePceRisk ==
    /\ pc = "idle"
    /\ \E age \in PceAges, sex \in {"male", "female", "other"},
          race \in {"white", "Black", "hispanic"}, risk_factors \in PceRiskFactorSets :
          /\ call' = [age |-> age, sex |-> sex, race |-> race,
                      risk_factors |-> risk_factors,
                      total_chol |-> Get(risk_factors, "total_cholesterol", R(200)),
                      hdl_chol |-> Get(risk_factors, "hdl_cholesterol", R(50)),
                      bp_treated |-> Get(risk_factors, "bp_treated", FALSE)]
          /\ result' = Return(calculate_pce_risk(coefficients, age, sex, risk_factors, race))
    /\ pc' = "calculate_pce_risk"
    /\ UNCHANGED <<refs, usage_log, rr_db_instances>>

NextPce == Calculate10YearRisk \/ CalculatePceRisk \/ Respond
SpecPce == Init /\ [][NextPce]_vars

----------------------------------------------------------------------------
(* Claims about the Pooled Cohort Equations.                               *)

PceDone == pc \in {"calculate_10_year_risk", "calculate_pce_risk"}

\* the call returned a dict with all three risks and no error
PceRisks ==
    /\ result.ok
    /\ "error" \notin DOMAIN result.val
    /\ result.val.risk_10_year # None
    /\ result.val.risk_5_year # None
    /\ result.val.risk_1_year # None

\* the call returned an error record: a non-empty error, the three risks absent
PceErrorRecord ==
    /\ result.ok
    /\ "error" \in DOMAIN result.val
    /\ result.val.error # ""
    /\ result.val.risk_10_year = None
    /\ result.val.risk_5_year = None
    /\ result.val.risk_1_year = None

SbpNames(treated) ==
    IF treated THEN {"ln_sbp_treated", "ln_age_x_ln_sbp_treated"}
    ELSE {"ln_sbp_untreated", "ln_age_x_ln_sbp_untreated"}

\* C8: the linear predictor has exactly one term for each coefficient of the
\* selected group that applies to the call, with that group's value: a term
\* the group lacks does not appear, no term carries a value other than the
\* group's coefficient of its own name, and the blood pressure terms are the
\* treated coefficient and its age interaction when bp_treated is true, the
\* untreated ones when false, never those of the other status.
C8_OnlyGroupTerms ==
    (PceDone /\ PceRisks) =>
        LET coeff == coefficients[result.val.coefficients_used]
            sum == result.val.sum_of_products
            used == {sum[i].coefficient : i \in DOMAIN sum}
        IN  /\ \A i \in DOMAIN sum :
                  /\ sum[i].coefficient \in DOMAIN coeff
                  /\ sum[i].value = coeff[sum[i].coefficient]
            /\ \A i, j \in DOMAIN sum : sum[i].coefficient = sum[j].coefficient => i = j
            /\ used = (DOMAIN coeff \ {"mean_coefficient_sum", "baseline_survival"})
                          \ SbpNames(~call.bp_treated)
            /\ SbpNames(call.bp_treated) \cap DOMAIN coeff \subseteq used
            /\ SbpNames(~call.bp_treated) \cap used = {}

C8_Witness ==
    /\ PceDone /\ PceRisks
    /\ call.bp_treated
    /\ result.val.coefficients_used = "black_female"
    /\ \E i \in DOMAIN result.val.sum_of_products :
          result.val.sum_of_products[i].coefficient = "ln_age_x_ln_sbp_treated"

\* C9: for an age below 40 or above 79, whatever the other inputs, the call
\* returns an error record (it does not raise); for an age in 40..79 with sex
\* male or female and positive total and HDL cholesterol it returns all three
\* risks and no error.
C9_AgeRange ==
    PceDone =>
        /\ (call.age < 40 \/ call.age > 79) => PceErrorRecord
        /\ (/\ 40 <= call.age /\ call.age <= 79
            /\ Lower(call.sex) \in {"male", "female"}
            /\ RLt(Zero, call.total_chol) /\ RLt(Zero, call.hdl_chol)) => PceRisks

C9_Witness ==
    /\ pc = "calculate_10_year_risk"
    /\ call.age = 80
    /\ call.sex = "other"
    /\ call.race = "asian"
    /\ call.total_chol = Zero
    /\ PceErrorRecord

\* C10: for ages 40..79, a race of black or african_american selects the
\* black group of the given sex and every other race, white included, the
\* white group; a sex other than male or female gives an error record for an
\* unsupported combination with the three risks absent; the population field
\* of a successful result names the group whose coefficients were used.
C10_GroupSelection ==
    (PceDone /\ 40 <= call.age /\ call.age <= 79) =>
        IF Lower(call.sex) \notin {"male", "female"}
        THEN /\ PceErrorRecord
             /\ result.val.error =
                    "Unsupported combination: "
                        \o (IF Lower(call.race) \in {"black", "african_american"}
                            THEN "black" ELSE "white")
                        \o " " \o Lower(call.sex)
        ELSE PceRisks =>
                LET group == (IF Lower(call.race) \in {"black", "african_american"}
                              THEN "black" ELSE "white") \o "_" \o Lower(call.sex)
                IN  /\ result.val.population = group
                    /\ result.val.coefficients_used = group
                    /\ result.val.baseline_survival = coefficients[group].baseline_survival
                    /\ result.val.mean_coefficient_sum =
                           coefficients[group].mean_coefficient_sum
                    /\ \A i \in DOMAIN result.val.sum_of_products :
                          LET t == result.val.sum_of_products[i]
                          IN  t.value = coefficients[group][t.coefficient]

C10_Witness ==
    /\ PceDone /\ PceRisks
    /\ call.race = "hispanic"
    /\ call.sex = "female"
    /\ result.val.population = "white_female"

----------------------------------------------------------------------------
(* POST /api/calculate-risk.                                               *)

ApiAges == {20, 39, 40, 50, 70, 90}

\* the cardiovascular predictors of a request
ApiPredictorSets ==
    {<<>>,
     "systolic_bp" :> R(140),
     ("systolic_bp" :> R(140)) @@ ("bmi" :> R(27)) @@ ("egfr" :> R(95)),
     ("total_cholesterol" :> R(213)) @@ ("hdl_cholesterol" :> R(50))
         @@ ("systolic_bp" :> R(140)) @@ ("egfr" :> R(95)),
     ("total_cholesterol" :> R(213)) @@ ("hdl_cholesterol" :> R(50))
         @@ ("systolic_bp" :> R(140)) @@ ("bmi" :> R(27)) @@ ("egfr" :> R(95)),
     ("total_cholesterol" :> Zero) @@ ("hdl_cholesterol" :> R(50))
         @@ ("systolic_bp" :> R(140)) @@ ("bmi" :> R(27)) @@ ("egfr" :> R(95))}

ApiRequests ==
    {[age |-> 40, sex |-> "male"]} \cup
    {("age" :> age) @@ ("sex" :> sex) @@ ("risk_factors" :> rf) @@ th :
        age \in ApiAges, sex \in Sexes \cup {"other"},
        rf \in Merge2({<<>>, "smoking_status" :> "current"}, ApiPredictorSets),
        th \in {<<>>, "time_horizon" :> "10_year"}}

\* the route calculate_risk serving one request
ApiCalculateRisk ==
    /\ pc = "idle"
    /\ usage_log < MaxLog
    /\ rr_db_instances <= MaxLog
    /\ \E data \in ApiRequests :
          LET db == init_database(rr_db_file)
              logged ==
                  /\ {"age", "sex", "risk_factors"} \subseteq DOMAIN data
                  /\ MortalityCalculator_validate_inputs(data["age"], data["sex"],
                         data["risk_factors"], Get(data, "time_horizon", "1_year")).ok
                  /\ calculate_adjusted_risk(ssa_data, cdc_data, db, data["age"],
                         data["sex"], data["risk_factors"],
                         Get(data, "time_horizon", "1_year")).ok
          IN  /\ call' = data
              /\ result' = route_calculate_risk(ssa_data, cdc_data, db, coefficients, data)
              /\ usage_log' = IF logged THEN usage_log + 1 ELSE usage_log
              /\ rr_db_instances' =
                     IF /\ {"age", "sex", "risk_factors"} \subseteq DOMAIN data
                        /\ MortalityCalculator_validate_inputs(data["age"], data["sex"],
                               data["risk_factors"], Get(data, "time_horizon", "1_year")).ok
                        /\ reaches_risk_adjustments(ssa_data, cdc_data, data["age"],
                               data["sex"], Get(data, "time_horizon", "1_year"))
                     THEN rr_db_instances + 1 ELSE rr_db_instances
    /\ rr_db_file' = init_database(rr_db_file)
    /\ pc' = "route_calculate_risk"
    /\ UNCHANGED <<ssa_data, cdc_data, intervention_effects, coefficients>>

NextApi == ApiCalculateRisk \/ Respond
SpecApi == Init /\ [][NextApi]_vars

----------------------------------------------------------------------------
(* Claims about the comprehensive calculation.                             *)

ApiDone ==
    pc = "route_calculate_risk" /\ {"age", "sex", "risk_factors"} \subseteq DOMAIN call

\* the request passes the calculator's input validation
ApiInputsValid ==
    /\ call["sex"] \in Sexes
    /\ Get(call, "time_horizon", "1_year") \in Horizons

\* the baseline-mortality lookup of the request fails
BaselineLookupFails ==
    ~calculate_baseline_mortality(ssa_data, call["age"], call["sex"],
                                  Get(call, "time_horizon", "1_year")).ok

\* PCE fails: age outside 40-79 or a non-positive cholesterol value
PceFailure ==
    \/ call["age"] < 40 \/ call["age"] > 79
    \/ ~RLt(Zero, Get(call["risk_factors"], "total_cholesterol", R(200)))

\* PREVENT fails: a predictor is missing, or the age or the total cholesterol
\* is outside the range of the equations
PreventFailure ==
    \/ {"total_cholesterol", "hdl_cholesterol", "systolic_bp", "bmi", "egfr"}
           \ DOMAIN call["risk_factors"] # {}
    \/ call["age"] < 30 \/ call["age"] > 79
    \/ RLt(call["risk_factors"]["total_cholesterol"], R(130))
    \/ RLt(R(320), call["risk_factors"]["total_cholesterol"])

\* the PREVENT part of the response is an error record
PreventErrorRecord ==
    \/ ~result.preventRisk.available
    \/ result.preventRisk.errors # <<>>

\* C2: in a comprehensive calculation a valid request is aborted only when the
\* baseline-mortality lookup fails; otherwise the all-cause result is returned,
\* a failing PCE gives an error record in the PCE part, a failing PREVENT
\* (invalid or missing predictors) gives an error record in the PREVENT part,
\* and the sub-model that did not fail still returns its risks.
C2_SubModelIsolation ==
    (ApiDone /\ ApiInputsValid) =>
        IF BaselineLookupFails THEN result.status = 500
        ELSE /\ result.status = 200
             /\ result.metadata.baseline_risk =
                    calculate_baseline_mortality(ssa_data, call["age"], call["sex"],
                        Get(call, "time_horizon", "1_year")).val
             /\ PceFailure => /\ result.cardiovascularRisk.error # ""
                              /\ result.cardiovascularRisk.risk_10_year = None
                              /\ ~result.cardiovascularRisk.available
             /\ ~PceFailure => /\ result.cardiovascularRisk.available
                               /\ result.cardiovascularRisk.risk_10_year # None
             /\ PreventFailure => PreventErrorRecord
             /\ ~PreventFailure => /\ result.preventRisk.available
                                   /\ result.preventRisk.risk_10yr_cvd # None
                                   /\ result.preventRisk.risk_10yr_hf # None

----------------------------------------------------------------------------
(* _calculate_prevent_risk called with the request's age, sex and risk     *)
(* factors, any of the five predictors supplied or missing.                *)

PreventPredictors ==
    [total_cholesterol |-> R(213), hdl_cholesterol |-> R(50), systolic_bp |-> R(140),
     bmi |-> R(27), egfr |-> R(95)]

PreventRiskFactorSets ==
    {[k \in S |-> PreventPredictors[k]] : S \in SUBSET DOMAIN PreventPredictors}

PreventAges == {29, 45, 65}

CalculatePreventRisk ==
    /\ pc = "idle"
    /\ \E age \in PreventAges, sex \in Sexes, rf \in PreventRiskFactorSets :
          /\ call' = [age |-> age, sex |-> sex, risk_factors |-> rf]
          /\ result' = _calculate_prevent_risk(age, sex, rf)
    /\ pc' = "_calculate_prevent_risk"
    /\ UNCHANGED <<refs, usage_log, rr_db_instances>>

NextPreventRisk == CalculatePreventRisk \/ Respond
SpecPreventRisk == Init /\ [][NextPreventRisk]_vars

Supplied(k) == k \in DOMAIN call.risk_factors

Absent(fields) == \A f \in fields : Get(result, f, None) = None

CvdOutputs == {"risk_10yr_cvd", "risk_10yr_ascvd", "risk_30yr_cvd", "risk_30yr_ascvd"}
HfOutputs == {"risk_10yr_hf", "risk_30yr_hf"}

\* the sub-model is reported as not applicable: the answer is unavailable, or
\* its error list names the sub-model or the age range
Reported(group) ==
    \/ ~result.available
    \/ Names(Get(result, "errors", <<>>), group)
    \/ InErrors(Get(result, "errors", <<>>), "age must be between 30-79 years")

\* C13: in _calculate_prevent_risk, when total cholesterol or HDL is missing
\* from the risk factors the CVD and ASCVD outputs are absent and reported as
\* not applicable, when BMI is missing the HF outputs are absent and reported
\* as not applicable, and the sub-model whose predictors are all supplied is
\* still computed.
C13_MissingPredictorNotDefaulted ==
    pc = "_calculate_prevent_risk" =>
        LET cvd_missing == ~Supplied("total_cholesterol") \/ ~Supplied("hdl_cholesterol")
            hf_missing == ~Supplied("bmi")
            common == Supplied("systolic_bp") /\ Supplied("egfr") /\ call.age >= 30
        IN  /\ cvd_missing => (Absent(CvdOutputs) /\ Reported("CVD"))
            /\ hf_missing => (Absent(HfOutputs) /\ Reported("HF"))
            /\ (common /\ cvd_missing /\ ~hf_missing) =>
                   Get(result, "risk_10yr_hf", None) # None
            /\ (common /\ hf_missing /\ ~cvd_missing) =>
                   Get(result, "risk_10yr_cvd", None) # None

----------------------------------------------------------------------------
(* calculate_baseline_mortality called directly.                           *)

CalculateBaselineMortality ==
    /\ pc = "idle"
    /\ \E age \in Ages, sex \in Sexes, th \in Horizons :
          /\ call' = [age |-> age, sex |-> sex, time_horizon |-> th]
          /\ result' = calculate_baseline_mortality(ssa_data, age, sex, th)
    /\ pc' = "calculate_baseline_mortality"
    /\ UNCHANGED <<refs, usage_log, rr_db_instances>>

NextBaseline == CalculateBaselineMortality \/ Respond
SpecBaseline == Init /\ [][NextBaseline]_vars

BaselineDone == pc = "calculate_baseline_mortality"

SupportedHorizons == {"6_month", "1_year", "5_year"}

\* the qx of the row of the call's age, in the column of the call's sex
RowQx == IF call.sex = "male" THEN ssa_data[call.age].male_qx ELSE ssa_data[call.age].female_qx

\* C14: calculate_baseline_mortality fails with the ValueError of unavailable
\* data both when the age is outside the life table's range and when it is
\* inside the range but has no row; for every age that has a row it returns
\* the probability derived from that row's qx for the requested sex.
C14_DataUnavailable ==
    (BaselineDone /\ call.time_horizon \in SupportedHorizons) =>
        IF call.age \in DOMAIN ssa_data
        THEN /\ result.ok
             /\ result.val = horizon_probability(RowQx, call.time_horizon).val
             /\ call.time_horizon = "1_year" => result.val = RowQx
        ELSE ~result.ok /\ result.exc = "ValueError"

\* C15: for every life-table qx in (0,1) the horizon probabilities of
\* calculate_baseline_mortality are strictly ordered,
\* 6_month < 1_year < 5_year, and the one-year probability is qx itself.
C15_HorizonOrder ==
    (BaselineDone /\ result.ok) =>
        LET at(th) == calculate_baseline_mortality(ssa_data, call.age, call.sex, th).val
        IN  /\ RLt(Zero, RowQx) /\ RLt(RowQx, One)
            /\ result.val = at(call.time_horizon)
            /\ at("1_year") = RowQx
            /\ RLt(at("6_month"), at("1_year"))
            /\ RLt(at("1_year"), at("5_year"))
            /\ RLt(Zero, at("6_month")) /\ RLt(at("5_year"), One)

\* the six-month probability of the smallest qx of the table has been returned
C15_Witness ==
    /\ BaselineDone
    /\ call.time_horizon = "6_month"
    /\ result.ok
    /\ RowQx = <<1, 50>>
    /\ RLt(result.val, RowQx)

----------------------------------------------------------------------------
(* allocate_cause_risks called directly.                                   *)

AllocAges == Ages \cup {24, 25, 44, 45, 74, 75, 84}
BaselineRisks == {Zero, <<1, 50>>, <<1, 20>>, <<1, 4>>}

AllocateCauseRisks ==
    /\ pc = "idle"
    /\ \E age \in AllocAges, baseline_risk \in BaselineRisks :
          /\ call' = [age |-> age, baseline_risk |-> baseline_risk]
          /\ result' = allocate_cause_risks(cdc_data, age, baseline_risk)
    /\ pc' = "allocate_cause_risks"
    /\ UNCHANGED <<refs, usage_log, rr_db_instances>>

NextAllocate == AllocateCauseRisks \/ Respond
SpecAllocate == Init /\ [][NextAllocate]_vars

AllocDone == pc = "allocate_cause_risks"

SixCauses == <<"heart_disease", "cancer", "accidents", "stroke", "diabetes", "other">>

\* the sum of the six buckets of an allocation
SumOfBuckets(alloc) == RSumSeq([i \in 1..6 |-> alloc[SixCauses[i]]])

MatchingRows ==
    {i \in 1..Len(cdc_data.rows) :
        LET row == cdc_data.rows[i]
        IN  \/ row.dash /\ row.start <= call.age /\ call.age <= row.end
            \/ row.age_group = "85+" /\ call.age >= 85}

\* the named cause risks are the baseline times the percentages of the row
FromRow(i) ==
    \A k \in 1..5 :
        result.val[NamedCauses[k]] =
            RMul(call.baseline_risk, RDiv(Pct(cdc_data.rows[i], NamedCauses[k]), R(100)))

\* C17: with a cause table configured, allocate_cause_risks uses the first
\* band 'a-b' with a <= age <= b, or the band '85+' when age >= 85, and fails
\* with the ValueError of no matching age band, returning no allocation,
\* exactly when no band of the table matches the age.
C17_BandSelection ==
    (AllocDone /\ cdc_data.loaded) =>
        IF MatchingRows = {}
        THEN ~result.ok /\ result.exc = "ValueError"
        ELSE result.ok /\ FromRow(SetMin(MatchingRows))

\* an age at the inclusive end of the first of two overlapping bands
C17_Witness ==
    /\ AllocDone /\ cdc_data.loaded
    /\ call.age = 64
    /\ call.baseline_risk = <<1, 20>>
    /\ Cardinality(MatchingRows) = 2
    /\ result.ok
    /\ FromRow(1) /\ ~FromRow(2)

PctSum(row) == RSumSeq([k \in 1..5 |-> Pct(row, NamedCauses[k])])

----------------------------------------------------------------------------
(* Claims about the relative-risk lookup.                                  *)

\* C21: get_relative_risk_value with the default population 'us' never
\* returns the '_global' estimate of a factor for which the database holds a
\* U.S.-specific value; with the built-in database the smoking multiplier of
\* a current smoker is the U.S.-specific current_vs_never value 2.3.
C21_PrefersUsEstimate ==
    (AdjustedDone /\ Get(call.risk_factors, "smoking_status", "") = "current") =>
        /\ \A c \in DOMAIN rr_db_file : \A f \in DOMAIN rr_db_file[c] :
               (f \o "_global") \in DOMAIN rr_db_file[c] =>
                   get_relative_risk_value(rr_db_file, c, f).val = rr_db_file[c][f]
        /\ result.val.risk_adjustments["smoking_rr"] = <<23, 10>>

----------------------------------------------------------------------------
(* MortalityCalculator.calculate_risk called directly, with values inside  *)
(* and outside the ranges and enumerations.                                *)

CalcRiskFactorSets ==
    {<<>>,
     "smoking_status" :> "current", "smoking_status" :> "sometimes",
     "fitness_level" :> "high", "fitness_level" :> "extreme",
     "alcohol_pattern" :> "heavy", "alcohol_pattern" :> "weekly"}

CalculateRisk ==
    /\ pc = "idle"
    /\ usage_log < MaxLog
    /\ rr_db_instances <= MaxLog
    /\ \E age \in {-1, 40, 121}, sex \in {"male", "other"}, rf \in CalcRiskFactorSets,
          time_horizon \in {"1_year", "10_year"} :
          LET r == calculate_risk(ssa_data, cdc_data, init_database(rr_db_file),
                                  age, sex, rf, time_horizon)
              logged ==
                  /\ MortalityCalculator_validate_inputs(age, sex, rf, time_horizon).ok
                  /\ calculate_adjusted_risk(ssa_data, cdc_data, init_database(rr_db_file),
                                             age, sex, rf, time_horizon).ok
          IN  /\ call' = [age |-> age, sex |-> sex, risk_factors |-> rf,
                          time_horizon |-> time_horizon]
              /\ result' = r
              /\ usage_log' = IF logged THEN usage_log + 1 ELSE usage_log
              /\ rr_db_instances' =
                     IF /\ MortalityCalculator_validate_inputs(age, sex, rf, time_horizon).ok
                        /\ reaches_risk_adjustments(ssa_data, cdc_data, age, sex, time_horizon)
                     THEN rr_db_instances + 1 ELSE rr_db_instances
    /\ rr_db_file' = init_database(rr_db_file)
    /\ pc' = "calculate_risk"
    /\ UNCHANGED <<ssa_data, cdc_data, intervention_effects, coefficients>>

NextCalc == CalculateRisk \/ Respond
SpecCalc == Init /\ [][NextCalc]_vars

\* the request has a value outside its range or enumeration
OutOfRange(c) ==
    \/ c.age < 0 \/ c.age > 120
    \/ c.sex \notin {"male", "female"}
    \/ c.time_horizon \notin {"6_month", "1_year", "5_year"}
    \/ Get(c.risk_factors, "smoking_status", "never") \notin {"never", "former", "current"}
    \/ Get(c.risk_factors, "fitness_level", "moderate") \notin {"sedentary", "moderate", "high"}
    \/ Get(c.risk_factors, "alcohol_pattern", "none") \notin
           {"none", "moderate", "heavy", "binge"}

\* C22: calculate_risk answers every request with an out-of-range or
\* invalid-enum value by the input-validation error, and such a request
\* writes nothing: no usage-log entry and no reference data.
C22_RejectedBeforeComputation ==
    [][(pc = "idle" /\ pc' = "calculate_risk" /\ OutOfRange(call')) =>
           /\ ~result'.ok
           /\ result'.exc = "ValueError"
           /\ usage_log' = usage_log
           /\ rr_db_instances' = rr_db_instances
           /\ refs' = refs]_vars


----------------------------------------------------------------------------
(* The calculator in service: calculate_risk, calculate_pce_risk,          *)
(* prevent_base and model_interventions called in any order.               *)

NextService ==
    CalculateRisk \/ CalculatePceRisk \/ PreventBase \/ ModelInterventions \/ Respond
SpecService == Init /\ [][NextService]_vars

\* C23: the reference data are loaded once at initialization and no later
\* operation writes, recreates or reloads a reference table or the
\* relative-risk database: every step leaves the life table, the cause table,
\* the database file, the intervention effects and the PCE coefficients as
\* they were, and constructs no further RelativeRiskDatabase (whose
\* constructor runs init_database again and whose lookups read the file again)
C23_ReferenceDataLoadedOnce ==
    [][refs' = refs /\ rr_db_instances' = rr_db_instances]_vars


----------------------------------------------------------------------------
(* calculate_risk called from several threads with no lock.  Each thread   *)
(* has its own position, arguments and result; the life table, the cause   *)
(* table, the database file and the usage log (the data_usage table of the *)
(* one data_logger) are shared.  A call validates and computes on what it  *)
(* reads, then inserts its usage row, then returns.                        *)

Threads == {1, 2}

ThreadRequests ==
    [age : {40, 121}, sex : {"male"},
     risk_factors : {<<>>, "smoking_status" :> "current", "fitness_level" :> "high"},
     time_horizon : {"1_year", "5_year"}]

InitThreads ==
    /\ ssa_data \in LifeTables
    /\ cdc_data \in CauseTables
    /\ rr_db_file = init_database(NoFile)
    /\ intervention_effects = _load_intervention_effects(init_database(NoFile)).val
    /\ coefficients = PCECoefficients
    /\ usage_log = 0
    /\ rr_db_instances = 1
    /\ pc = [t \in Threads |-> "idle"]
    /\ call = [t \in Threads |-> <<>>]
    /\ result = [t \in Threads |-> <<>>]

\* the value calculate_risk returns to a caller running alone
alone(c) ==
    calculate_risk(ssa_data, cdc_data, init_database(rr_db_file),
                   c.age, c.sex, c.risk_factors, c.time_horizon)

\* a thread enters calculate_risk
ThreadCall(t) ==
    /\ pc[t] = "idle"
    /\ usage_log < MaxLog
    /\ rr_db_instances <= MaxLog
    /\ \E c \in ThreadRequests : call' = [call EXCEPT ![t] = c]
    /\ pc' = [pc EXCEPT ![t] = "calculate_risk"]
    /\ UNCHANGED <<refs, usage_log, rr_db_instances, result>>

\* validation, then calculate_adjusted_risk up to its log_usage call
ThreadCompute(t) ==
    /\ pc[t] = "calculate_risk"
    /\ LET c == call[t]
           valid == MortalityCalculator_validate_inputs(c.age, c.sex, c.risk_factors,
                                                        c.time_horizon).ok
           constructs == valid /\ reaches_risk_adjustments(ssa_data, cdc_data, c.age,
                                                           c.sex, c.time_horizon)
           logs == valid /\ calculate_adjusted_risk(ssa_data, cdc_data,
                               init_database(rr_db_file), c.age, c.sex, c.risk_factors,
                               c.time_horizon).ok
       IN  /\ result' = [result EXCEPT ![t] = alone(c)]
           /\ rr_db_instances' = IF constructs THEN rr_db_instances + 1
                                 ELSE rr_db_instances
           /\ rr_db_file' = IF constructs THEN init_database(rr_db_file) ELSE rr_db_file
           /\ pc' = [pc EXCEPT ![t] = IF logs THEN "log_usage" ELSE "done"]
    /\ UNCHANGED <<ssa_data, cdc_data, intervention_effects, coefficients, usage_log, call>>

\* data_logger.log_usage: INSERT INTO data_usage and commit
ThreadLogUsage(t) ==
    /\ pc[t] = "log_usage"
    /\ usage_log' = usage_log + 1
    /\ pc' = [pc EXCEPT ![t] = "done"]
    /\ UNCHANGED <<refs, rr_db_instances, call, result>>

\* the caller takes the result
ThreadRespond(t) ==
    /\ pc[t] = "done"
    /\ pc' = [pc EXCEPT ![t] = "idle"]
    /\ call' = [call EXCEPT ![t] = <<>>]
    /\ result' = [result EXCEPT ![t] = <<>>]
    /\ UNCHANGED <<refs, usage_log, rr_db_instances>>

NextThreads ==
    \E t \in Threads :
        ThreadCall(t) \/ ThreadCompute(t) \/ ThreadLogUsage(t) \/ ThreadRespond(t)
SpecThreads == InitThreads /\ [][NextThreads]_vars

\* C24: concurrent calculate_risk calls do not interfere: a step of one call
\* taken while another call is in progress writes no state the other call
\* reads or writes (the usage log and the reference data stay as they were),
\* and every call finishes with the result it returns when run alone
C24_NoInterference ==
    [][\A t \in Threads :
          /\ (pc'[t] # pc[t] /\ \E u \in Threads \ {t} : pc[u] \in {"calculate_risk", "log_usage"})
                 => (usage_log' = usage_log /\ refs' = refs)
          /\ (pc'[t] = "done" /\ pc[t] # "done") => result'[t] = alone(call[t])]_vars


----------------------------------------------------------------------------
(* The floats of the Pooled Cohort Equations.  A float is kept as an       *)
(* integer number of ten-thousandths; logarithm and exponential are        *)
(* computed by their series to that precision.                             *)

FxScale == 10000

\* the float nearest below the rational r
ToFx(r) == (r[1] * FxScale) \div r[2]

\* a * b for |b| below 20
FxMul(a, b) == (a \div FxScale) * b + ((a % FxScale) * b) \div FxScale

\* the k with 2 ** k <= n / d < 2 ** (k + 1), searched upward from k
RECURSIVE Log2From(_, _, _)
Log2From(n, d, k) ==
    IF k < 0 THEN (IF n * 2 >= d THEN k ELSE Log2From(n * 2, d, k - 1))
    ELSE IF n < 2 * d THEN k ELSE Log2From(n, d * 2, k + 1)

\* 2 * (z + z^3 / 3 + ... ) from the term z^j on, for |z| <= 1/3
RECURSIVE AtanhFrom(_, _, _)
AtanhFrom(zj, z2, j) ==
    IF j > 11 THEN 0 ELSE (2 * zj) \div j + AtanhFrom(FxMul(zj, z2), z2, j + 2)

\* math.log(x) for a rational x > 0: x = m * 2 ** k with 1 <= m < 2,
\* log(x) = k * log(2) + 2 * atanh((m - 1) / (m + 1))
FxLog(x) ==
    LET k == IF x[1] >= x[2] THEN Log2From(x[1], x[2], 0) ELSE Log2From(x[1], x[2], -1)
        n == IF k < 0 THEN x[1] * (2 ^ (-k)) ELSE x[1]
        d == IF k < 0 THEN x[2] ELSE x[2] * (2 ^ k)
        z == ((n - d) * FxScale) \div (n + d)
    IN  (k * 693147 + 50) \div 100 + AtanhFrom(z, FxMul(z, z), 1)

\* 1 + y + y^2 / 2 + ... from the term t = y^j / j! on, for |y| <= 1/2
RECURSIVE ExpSeries(_, _, _)
ExpSeries(t, y, j) ==
    IF j > 8 THEN 0 ELSE t + ExpSeries(FxMul(t, y) \div (j + 1), y, j + 1)

\* math.exp(y): exp(y) = exp(y / 2) ** 2 down to |y| <= 1/2
RECURSIVE FxExp(_)
FxExp(y) ==
    IF 2 * Abs(y) <= FxScale THEN ExpSeries(FxScale, y, 0)
    ELSE LET h == FxExp(y \div 2) IN FxMul(h, h)

\* the value of one factor of a term: a logarithm or a 0/1 indicator
factor_value(f) ==
    IF "ln" \in DOMAIN f THEN FxLog(f.ln) ELSE f.indicator * FxScale

\* coeff[name] * factor * ...
RECURSIVE term_value(_, _)
term_value(v, factors) ==
    IF factors = <<>> THEN v
    ELSE term_value(FxMul(v, factor_value(Head(factors))), Tail(factors))

\* sum_of_products as a float: the terms added in their order
RECURSIVE sum_value(_)
sum_value(terms) ==
    IF terms = <<>> THEN 0
    ELSE term_value(ToFx(Head(terms).value), Head(terms).factors) + sum_value(Tail(terms))

\* baseline_survival ** math.exp(sum_of_products - mean_sum)
survival_power(risk) ==
    FxExp(FxMul(FxExp(sum_value(risk.sum_of_products) - ToFx(risk.mean_sum)),
                FxLog(risk.baseline_survival)))

\* a risk that leaves out the "1 -"
risk_value_as_survival(risk) == RMul(risk.scale, Rat(survival_power(risk), FxScale))

\* scale * (1 - baseline_survival ** math.exp(sum_of_products - mean_sum))
risk_value(risk) == RMul(risk.scale, Rat(FxScale - survival_power(risk), FxScale))

\* calculate_10_year_risk: risk_level
pce_risk_level(risk_10_year) ==
    IF RLt(risk_10_year, Rat(75, 1000)) THEN "Low"
    ELSE IF RLt(risk_10_year, Rat(20, 100)) THEN "Borderline"
    ELSE IF RLt(risk_10_year, Rat(20, 100)) THEN "Intermediate"
    ELSE "High"

\* the dict calculate_10_year_risk returns, with the three risks as floats
\* and with risk_level
evaluated(r) ==
    IF "error" \in DOMAIN r THEN r
    ELSE [r EXCEPT !.risk_10_year = risk_value(r.risk_10_year),
                   !.risk_5_year = risk_value(r.risk_5_year),
                   !.risk_1_year = risk_value(r.risk_1_year)]
         @@ [risk_level |-> pce_risk_level(risk_value(r.risk_10_year))]

\* pce.calculate_10_year_risk(...) with its result evaluated
Calculate10YearRiskValue ==
    /\ pc = "idle"
    /\ \E age \in {40, 55, 65, 79}, sex \in {"male", "female"}, race \in {"white", "black"},
          systolic_bp \in {R(120), R(160)}, bp_treated \in BOOLEAN, smoker \in BOOLEAN,
          diabetes \in BOOLEAN :
          /\ call' = [age |-> age, sex |-> sex, race |-> race, total_chol |-> R(213),
                      hdl_chol |-> R(50), systolic_bp |-> systolic_bp,
                      bp_treated |-> bp_treated, smoker |-> smoker, diabetes |-> diabetes]
          /\ result' = evaluated(calculate_10_year_risk(coefficients, age, sex, race,
                           R(213), R(50), systolic_bp, bp_treated, smoker, diabetes).val)
    /\ pc' = "risk_value"
    /\ UNCHANGED <<refs, usage_log, rr_db_instances>>

NextPceValue == Calculate10YearRiskValue \/ Respond
SpecPceValue == Init /\ [][NextPceValue]_vars

PceValueDone == pc = "risk_value"

\* the worked example of the module: 55-year-old white male, TC 213, HDL 50,
\* SBP 120 untreated, non-smoker, no diabetes
WorkedExample ==
    /\ PceValueDone
    /\ call = [age |-> 55, sex |-> "male", race |-> "white", total_chol |-> R(213),
               hdl_chol |-> R(50), systolic_bp |-> R(120), bp_treated |-> FALSE,
               smoker |-> FALSE, diabetes |-> FALSE]

\* C25: for the worked example the 10-year risk
\* 1 - baseline_survival ^ exp(sum - mean) is within one percentage point of
\* 5.3%, and the 5-year and 1-year risks of a call are exactly 0.6 and 0.1
\* times its 10-year risk
C25_WorkedExample ==
    /\ WorkedExample =>
           RLe(RAbs(RSub(result.risk_10_year, Rat(53, 1000))), Rat(1, 100))
    /\ PceValueDone =>
           /\ result.risk_5_year = RMul(Rat(6, 10), result.risk_10_year)
           /\ result.risk_1_year = RMul(Rat(1, 10), result.risk_10_year)

C25_Witness ==
    /\ WorkedExample
    /\ result.risk_10_year = Rat(54, 1000)
    /\ result.risk_5_year = Rat(324, 10000)
    /\ result.risk_1_year = Rat(54, 10000)

\* 10-year risks from 0 to 1 in steps of 0.005
RiskGrid == {Rat(k, 200) : k \in 0..200}

\* C26: risk_level classifies every 10-year risk into Low, Borderline,
\* Intermediate and High by increasing thresholds, Low below 0.075, High from
\* 0.20 upward and the other two in between, and each of the four levels is
\* returned for some risk
C26_FourLevels ==
    /\ \A r \in RiskGrid :
           /\ pce_risk_level(r) \in {"Low", "Borderline", "Intermediate", "High"}
           /\ pce_risk_level(r) = "Low" <=> RLt(r, Rat(75, 1000))
           /\ pce_risk_level(r) = "High" <=> RLe(Rat(20, 100), r)
    /\ \A level \in {"Low", "Borderline", "Intermediate", "High"} :
           \E r \in RiskGrid : pce_risk_level(r) = level
    /\ PceValueDone => result.risk_level = pce_risk_level(result.risk_10_year)


----------------------------------------------------------------------------
(* The effects model_interventions reports.                                *)

\* relative_effect of improve_fitness with the given target, alone
FitnessEffect(target) ==
    model_interventions(intervention_effects, One,
                        <<<<"improve_fitness", target>>>>)["improve_fitness"].relative_effect

\* C27: every applicable intervention has a relative effect of at most 1, so
\* the combined new_risk does not exceed the current risk, and improve_fitness
\* is monotone in its target: the relative effect for 'high' is at most the
\* relative effect for 'moderate'
C27_EffectsBounded ==
    InterventionsDone =>
        /\ \A n \in DOMAIN call.interventions \ {"combined"} :
               result.val[n].applicable => RLe(result.val[n].relative_effect, One)
        /\ RLe(result.val["combined"].new_risk, call.current_risk)
        /\ RLe(FitnessEffect("high"), FitnessEffect("moderate"))


----------------------------------------------------------------------------
(* The two cardiovascular models applied to one risk-factor set, as the    *)
(* route applies them: calculate_pce_risk, then _calculate_prevent_risk.   *)

SmokingStatusSets ==
    {<<>>, "smoking_status" :> "never", "smoking_status" :> "former",
     "smoking_status" :> "current"}

CalculateCardiovascular ==
    /\ pc = "idle"
    /\ \E age \in {45, 65}, sex \in Sexes,
          rf \in Merge2(SmokingStatusSets, ApiPredictorSets) :
          /\ call' = [age |-> age, sex |-> sex, risk_factors |-> rf]
          /\ result' = [cardiovascular_risk |->
                            calculate_pce_risk(coefficients, age, sex, rf, "white"),
                        prevent_result |-> _calculate_prevent_risk(age, sex, rf),
                        smoker |-> pce_smoker(rf),
                        smoking |-> prevent_smoking(rf)]
    /\ pc' = "cardiovascular"
    /\ UNCHANGED <<refs, usage_log, rr_db_instances>>

NextCardiovascular == CalculateCardiovascular \/ Respond
SpecCardiovascular == Init /\ [][NextCardiovascular]_vars

\* C28: the two cardiovascular models get the same smoker flag from one
\* risk-factor set: whatever smoking_status is (never, former, current or
\* absent), the smoker input of the PCE equation equals the smoking input of
\* the PREVENT equation
C28_SameSmokerFlag ==
    pc = "cardiovascular" => (result.smoker <=> result.smoking = R(1))


----------------------------------------------------------------------------
(* The environmental adjustment of the route.                              *)

EnvironmentalFields == {"transportation_mode", "occupation_risk", "firearm_in_home"}

\* C29: a request with no transportation mode, occupation-risk tier or
\* firearm flag gets a neutral environmental adjustment: combined_rr is 1.0,
\* oneYearMortality is the adjusted_total_risk of the mortality model and the
\* life expectancy is computed from that risk
C29_NeutralEnvironment ==
    (/\ ApiDone
     /\ result.status = 200
     /\ DOMAIN call["risk_factors"] \cap EnvironmentalFields = {}) =>
        LET mortality_result ==
                calculate_risk(ssa_data, cdc_data, rr_db_file, call["age"], call["sex"],
                               call["risk_factors"],
                               Get(call, "time_horizon", "1_year")).val
        IN  /\ _calculate_environmental_risk(call["risk_factors"]).combined_rr = One
            /\ result.oneYearMortality = mortality_result.adjusted_total_risk
            /\ result.lifeExpectancy =
                   _calculate_life_expectancy(ssa_data, call["age"], call["sex"],
                                              mortality_result.adjusted_total_risk).val


----------------------------------------------------------------------------
(* api/risk_factor_schema.py.  A Python value is kept with its type, "int", *)
(* "float", "str" or "bool", and with its number, string or Boolean.       *)

PyInt(n) == [type |-> "int", num |-> R(n), str |-> "", bool |-> FALSE]
PyFloat(r) == [type |-> "float", num |-> r, str |-> "", bool |-> FALSE]
PyStr(s) == [type |-> "str", num |-> Zero, str |-> s, bool |-> FALSE]
PyBool(b) == [type |-> "bool", num |-> IF b THEN R(1) ELSE R(0), str |-> "", bool |-> b]

\* isinstance(value, int): bool is a subclass of int
IsInstanceInt(value) == value.type \in {"int", "bool"}

\* isinstance(value, (int, float))
IsInstanceNumber(value) == value.type \in {"int", "bool", "float"}

\* value < bound or value > bound: defined on numbers (True is 1, False is 0)
Compare(value, greater, bound) ==
    IF ~IsInstanceNumber(value) THEN Raise("TypeError")
    ELSE Return(IF greater THEN RLt(R(bound), value.num) ELSE RLt(value.num, R(bound)))

\* RiskFactorSchema.schema["required_fields"]: type, min, max, enum
RequiredFields ==
    [age |-> [type |-> "integer", min |-> 18, max |-> 120],
     sex |-> [type |-> "string", enum |-> {"male", "female"}],
     race |-> [type |-> "string", enum |-> {"white", "black", "african_american", "other"}]]

\* RiskFactorSchema.schema["risk_factors"]: type, min, max, enum
RiskFactorFields ==
    [smoking_status |-> [type |-> "string", enum |-> {"never", "former", "current"}],
     years_since_quit |-> [type |-> "integer", min |-> 0, max |-> 50],
     systolic_bp |-> [type |-> "number", min |-> 80, max |-> 250],
     bp_treated |-> [type |-> "boolean"],
     bmi |-> [type |-> "number", min |-> 15, max |-> 60],
     fitness_level |-> [type |-> "string", enum |-> {"sedentary", "moderate", "high"}],
     alcohol_pattern |-> [type |-> "string", enum |-> {"none", "moderate", "heavy", "binge"}],
     diabetes |-> [type |-> "boolean"],
     total_cholesterol |-> [type |-> "number", min |-> 100, max |-> 500],
     hdl_cholesterol |-> [type |-> "number", min |-> 20, max |-> 150]]

\* schema["risk_factors"].items() in the order of the dict
RiskFactorOrder ==
    <<"smoking_status", "years_since_quit", "systolic_bp", "bp_treated", "bmi",
      "fitness_level", "alcohol_pattern", "diabetes", "total_cholesterol",
      "hdl_cholesterol">>

\* validate_risk_factors: the type validation of one field
TypeErrors(field_name, field_schema, value) ==
    IF field_schema.type = "integer" /\ ~IsInstanceInt(value)
    THEN <<<<field_name, " must be an integer">>>>
    ELSE IF field_schema.type = "number" /\ ~IsInstanceNumber(value)
    THEN <<<<field_name, " must be a number">>>>
    ELSE IF field_schema.type = "string" /\ value.type # "str"
    THEN <<<<field_name, " must be a string">>>>
    ELSE IF field_schema.type = "boolean" /\ value.type # "bool"
    THEN <<<<field_name, " must be a boolean">>>>
    ELSE <<>>

\* validate_risk_factors: the range validation of one field
RangeErrors(field_name, field_schema, value) ==
    IF field_schema.type \notin {"integer", "number"} THEN Return(<<>>)
    ELSE
    Bind(IF "min" \in DOMAIN field_schema THEN Compare(value, FALSE, field_schema.min)
         ELSE Return(FALSE), LAMBDA below :
    Bind(IF "max" \in DOMAIN field_schema THEN Compare(value, TRUE, field_schema.max)
         ELSE Return(FALSE), LAMBDA above :
        Return((IF below THEN <<<<field_name, " must be >= ", field_schema.min>>>> ELSE <<>>)
               \o (IF above THEN <<<<field_name, " must be <= ", field_schema.max>>>>
                   ELSE <<>>))))

\* validate_risk_factors: the enum validation of one field
EnumErrors(field_name, field_schema, value) ==
    IF "enum" \in DOMAIN field_schema
       /\ ~(value.type = "str" /\ value.str \in field_schema.enum)
    THEN <<<<field_name, " must be one of: ", field_schema.enum>>>>
    ELSE <<>>

\* validate_risk_factors: the loop over the fields from the i-th on
RECURSIVE ValidateFrom(_, _, _)
ValidateFrom(risk_factors, i, errors) ==
    IF i > Len(RiskFactorOrder) THEN Return(errors)
    ELSE
    LET field_name == RiskFactorOrder[i]
        field_schema == RiskFactorFields[field_name]
    IN  IF field_name \notin DOMAIN risk_factors
        THEN ValidateFrom(risk_factors, i + 1, errors)
        ELSE
        LET value == risk_factors[field_name] IN
        Bind(RangeErrors(field_name, field_schema, value), LAMBDA range_errors :
            ValidateFrom(risk_factors, i + 1,
                         errors \o TypeErrors(field_name, field_schema, value)
                                \o range_errors
                                \o EnumErrors(field_name, field_schema, value)))

\* RiskFactorSchema.validate_risk_factors
validate_risk_factors(risk_factors) ==
    Bind(ValidateFrom(risk_factors, 1, <<>>), LAMBDA errors :
        Return([valid |-> errors = <<>>, errors |-> errors, warnings |-> <<>>,
                corrected_values |-> <<>>]))

\* the maps validate_risk_factors is called with
SchemaInputs ==
    Merge2({<<>>, "age" :> PyInt(65), "age" :> PyInt(150)},
    Merge2({<<>>, "sex" :> PyStr("other")},
    Merge2({<<>>, "smoking_status" :> PyStr("current"), "smoking_status" :> PyStr("heavy"),
            "smoking_status" :> PyInt(3)},
    Merge2({<<>>, "years_since_quit" :> PyInt(5), "years_since_quit" :> PyInt(60),
            "years_since_quit" :> PyFloat(Rat(5, 2))},
    Merge2({<<>>, "systolic_bp" :> PyInt(140), "systolic_bp" :> PyInt(300),
            "systolic_bp" :> PyStr("high")},
    Merge2({<<>>, "bmi" :> PyFloat(Rat(55, 2)), "bmi" :> PyInt(-5), "bmi" :> PyBool(TRUE)},
           {<<>>, "diabetes" :> PyBool(FALSE), "diabetes" :> PyStr("yes")}))))))

\* risk_factor_schema.validate_risk_factors(risk_factors)
ValidateRiskFactors ==
    /\ pc = "idle"
    /\ \E risk_factors \in SchemaInputs :
          /\ call' = [risk_factors |-> risk_factors]
          /\ result' = validate_risk_factors(risk_factors)
    /\ pc' = "validate_risk_factors"
    /\ UNCHANGED <<refs, usage_log, rr_db_instances>>

NextSchema == ValidateRiskFactors \/ Respond
SpecSchema == Init /\ [][NextSchema]_vars

\* the value breaks the type, range or enumeration its field declares
Violates(field_schema, value) ==
    \/ field_schema.type = "integer" /\ value.type # "int"
    \/ field_schema.type = "number" /\ value.type \notin {"int", "float"}
    \/ field_schema.type = "string" /\ value.type # "str"
    \/ field_schema.type = "boolean" /\ value.type # "bool"
    \/ /\ value.type \in {"int", "float"}
       /\ \/ "min" \in DOMAIN field_schema /\ RLt(value.num, R(field_schema.min))
          \/ "max" \in DOMAIN field_schema /\ RLt(R(field_schema.max), value.num)
    \/ /\ "enum" \in DOMAIN field_schema
       /\ value.type = "str"
       /\ value.str \notin field_schema.enum

DeclaredFields == RequiredFields @@ RiskFactorFields

\* C30: validate_risk_factors returns a result for every input map without
\* raising; every supplied field that breaks its declared type, range or
\* enumeration, age and sex included, has an entry in errors; and valid is
\* false exactly when errors is not empty
C30_ValidationTotal ==
    pc = "validate_risk_factors" =>
        /\ result.ok
        /\ \A f \in DOMAIN call.risk_factors \cap DOMAIN DeclaredFields :
               Violates(DeclaredFields[f], call.risk_factors[f]) =>
                   \E i \in DOMAIN result.val.errors : result.val.errors[i][1] = f
        /\ result.val.valid = FALSE <=> result.val.errors # <<>>

====
